---- MODULE Spec2Model ----
(***************************************************************************)
(* Ingestion-routing and report-publishing pipeline of the data analysis   *)
(* platform: src/webapp/main.py (with its main_dev.py and main_simple.py   *)
(* variants) and the cloud functions under src/functions.                  *)
(*                                                                         *)
(* Text is modelled as a sequence of one-character strings, so that        *)
(* lower(), upper(), splitext(), replace() and the regular expression of   *)
(* the validator are computed character by character.                      *)
(***************************************************************************)
EXTENDS Integers, Sequences, FiniteSets, TLC

VARIABLES
    vName,      \* validator harness: the string handed to validate_table_name
    vResult,    \* validator harness: what validate_table_name did with it
    schema,     \* resolver harness: the column names of the table, in order
    picked,     \* resolver harness: the outcome of one _pick_column call
    roles,      \* resolver harness: the outcome of _detect_finance_columns
    rendered,   \* resolver harness: the outcome of rendering one report
    dataset,    \* warehouse: whether the dataset exists
    tables,     \* warehouse: table id -> table or view
    store,      \* artifact store: object path -> content
    queue,      \* import topic: the messages published, in order
    tmp,        \* local files under /tmp that exist
    req,        \* the last request
    resp,       \* the response to it
    calls,      \* the collaborator calls it made, in order
    nreq,       \* requests handled so far
    restores,   \* worker: the restores invoked (instance, dump location, database), in order
    wlast,      \* worker: the last delivery and how import_sql left it
    rviews,     \* publish race: report id -> the view as the warehouse holds it
    rprocs,     \* publish race: call -> where it stands in its loop
    lifecycle,  \* hand-off: for each .sql upload stored, the states it went through
    qids,       \* hand-off: for each message on the topic, the upload it came from
    tmpfiles,   \* upload race: local path under /tmp -> what the file holds
    uprocs,     \* upload race: request -> its file and where it stands in index
    rate_limit_storage, \* limiter: client key -> the times of the requests it let through
    clock,      \* limiter: what time.time() returns
    lprocs,     \* limiter: thread -> its request and where it stands in the decorator
    admitted    \* limiter: client key -> the times of the requests that reached index

validatorVars == <<vName, vResult>>

resolverVars == <<schema, picked, roles, rendered>>

workerVars == <<restores, wlast>>

raceVars == <<rviews, rprocs>>

handoffVars == <<lifecycle, qids>>

uploadRaceVars == <<tmpfiles, uprocs>>

limiterVars == <<rate_limit_storage, clock, lprocs, admitted>>

auxVars == <<handoffVars, uploadRaceVars, limiterVars>>

pipelineVars ==
    <<dataset, tables, store, queue, tmp, req, resp, calls, nreq, workerVars, raceVars,
      auxVars>>

vars == <<validatorVars, resolverVars, pipelineVars>>

(***************************************************************************)
(* Characters and strings                                                  *)
(***************************************************************************)
LowerAlpha ==
    <<"a", "b", "c", "d", "e", "f", "g", "h", "i", "j", "k", "l", "m",
      "n", "o", "p", "q", "r", "s", "t", "u", "v", "w", "x", "y", "z">>

UpperAlpha ==
    <<"A", "B", "C", "D", "E", "F", "G", "H", "I", "J", "K", "L", "M",
      "N", "O", "P", "Q", "R", "S", "T", "U", "V", "W", "X", "Y", "Z">>

Digits == {"0", "1", "2", "3", "4", "5", "6", "7", "8", "9"}

Range(s) == {s[i] : i \in DOMAIN s}

\* the upper-case letter of each lower-case letter, and the reverse
ToUpper == [c \in Range(LowerAlpha) |-> UpperAlpha[CHOOSE i \in 1..26 : LowerAlpha[i] = c]]

ToLower == [c \in Range(UpperAlpha) |-> LowerAlpha[CHOOSE i \in 1..26 : UpperAlpha[i] = c]]

IsLowerChar(c) == c \in DOMAIN ToUpper

IsUpperChar(c) == c \in DOMAIN ToLower

\* str.upper() on one ASCII character
UpperChar(c) == IF IsLowerChar(c) THEN ToUpper[c] ELSE c

\* str.lower() on one ASCII character
LowerChar(c) == IF IsUpperChar(c) THEN ToLower[c] ELSE c

Upper(s) == [i \in DOMAIN s |-> UpperChar(s[i])]

Lower(s) == [i \in DOMAIN s |-> LowerChar(s[i])]

\* the character class [a-zA-Z0-9_]
IsWordChar(c) == IsLowerChar(c) \/ IsUpperChar(c) \/ c \in Digits \/ c = "_"

Rep(c, n) == [i \in 1..n |-> c]

(***************************************************************************)
(* validate_table_name                                                     *)
(***************************************************************************)
\* {1,128}: the longest run of word characters the pattern takes
MaxIdentLen == 128

\* Python's $ : at the end of the string, or just before a newline that
\* ends the string
AtDollar(s, k) == k = Len(s) \/ (k = Len(s) - 1 /\ s[Len(s)] = "\n")

\* re.match(r'^[a-zA-Z0-9_]{1,128}$', s)
ReMatchIdent(s) ==
    \E k \in 1..MaxIdentLen :
        /\ k <= Len(s)
        /\ \A i \in 1..k : IsWordChar(s[i])
        /\ AtDollar(s, k)

sql_keywords ==
    { <<"S", "E", "L", "E", "C", "T">>, <<"I", "N", "S", "E", "R", "T">>,
      <<"U", "P", "D", "A", "T", "E">>, <<"D", "E", "L", "E", "T", "E">>,
      <<"D", "R", "O", "P">>, <<"C", "R", "E", "A", "T", "E">>,
      <<"A", "L", "T", "E", "R">>, <<"E", "X", "E", "C">>,
      <<"U", "N", "I", "O", "N">>, <<"W", "H", "E", "R", "E">>,
      <<"J", "O", "I", "N">> }

Accepted(s) == [ok |-> TRUE, value |-> s, error |-> "none"]

Rejected(kind) == [ok |-> FALSE, value |-> <<>>, error |-> kind]

\* returns the name, or raises ValueError (error names which of the three)
validate_table_name(table_name) ==
    IF table_name = <<>> THEN Rejected("empty")
    ELSE IF ~ReMatchIdent(table_name) THEN Rejected("invalid")
    ELSE IF Upper(table_name) \in sql_keywords THEN Rejected("keyword")
    ELSE Accepted(table_name)

(***************************************************************************)
(* Configuration (environment variables with defaults)                     *)
(***************************************************************************)
PROJECT_ID == <<"p", "r", "o", "j">>

BIGQUERY_DATASET == <<"d", "s">>

Dot == <<".">>

\* f"{PROJECT_ID}.{BIGQUERY_DATASET}.{name}"
TableId(name) == PROJECT_ID \o Dot \o BIGQUERY_DATASET \o Dot \o name

(***************************************************************************)
(* Column role resolution                                                  *)
(***************************************************************************)
SetMin(S) == CHOOSE x \in S : \A y \in S : x <= y

SetMax(S) == CHOOSE x \in S : \A y \in S : x >= y

\* {lower_col_name: original_name}; a later field of the same lower-cased
\* name overwrites an earlier one
schema_cols(fields) ==
    [l \in {Lower(fields[i]) : i \in DOMAIN fields} |->
        fields[SetMax({i \in DOMAIN fields : Lower(fields[i]) = l})]]

NoName == <<>>

\* mutant of pick_column: the last candidate that the table has wins
pick_column_last_wins(cols, candidates, required) ==
    LET hits == {i \in DOMAIN candidates : Lower(candidates[i]) \in DOMAIN cols}
    IN  IF hits # {}
        THEN [status |-> "ok", name |-> cols[Lower(candidates[SetMax(hits)])],
              candidates |-> candidates]
        ELSE IF required
        THEN [status |-> "ValueError", name |-> NoName, candidates |-> candidates]
        ELSE [status |-> "None", name |-> NoName, candidates |-> candidates]

\* the first candidate, in list order, that the table has; else ValueError
\* naming the candidates, or None when the role is optional
pick_column(cols, candidates, required) ==
    LET hits == {i \in DOMAIN candidates : Lower(candidates[i]) \in DOMAIN cols}
    IN  IF hits # {}
        THEN [status |-> "ok", name |-> cols[Lower(candidates[SetMin(hits)])],
              candidates |-> candidates]
        ELSE IF required
        THEN [status |-> "ValueError", name |-> NoName, candidates |-> candidates]
        ELSE [status |-> "None", name |-> NoName, candidates |-> candidates]

department_candidates ==
    << <<"d", "e", "p", "a", "r", "t", "m", "e", "n", "t">>,
       <<"d", "e", "p", "t">>,
       <<"c", "o", "s", "t", "_", "c", "e", "n", "t", "e", "r">>,
       <<"c", "o", "s", "t", "c", "e", "n", "t", "r", "e">>,
       <<"c", "o", "s", "t", "_", "c", "e", "n", "t", "r", "e">> >>

amount_candidates ==
    << <<"a", "m", "o", "u", "n", "t">>,
       <<"t", "o", "t", "a", "l", "_", "a", "m", "o", "u", "n", "t">>,
       <<"s", "p", "e", "n", "d">>,
       <<"c", "o", "s", "t">>,
       <<"v", "a", "l", "u", "e">>,
       <<"a", "m", "t">> >>

date_candidates ==
    << <<"d", "a", "t", "e">>,
       <<"t", "x", "n", "_", "d", "a", "t", "e">>,
       <<"t", "r", "a", "n", "s", "a", "c", "t", "i", "o", "n", "_", "d", "a", "t", "e">>,
       <<"p", "o", "s", "t", "_", "d", "a", "t", "e">>,
       <<"d", "o", "c", "_", "d", "a", "t", "e">>,
       <<"m", "o", "n", "t", "h">>,
       <<"p", "e", "r", "i", "o", "d">> >>

expense_candidates ==
    << <<"e", "x", "p", "e", "n", "s", "e", "_", "t", "y", "p", "e">>,
       <<"c", "a", "t", "e", "g", "o", "r", "y">>,
       <<"t", "y", "p", "e">>,
       <<"g", "l", "_", "c", "o", "d", "e">> >>

Roles == {"department", "amount", "date", "expense_type"}

RoleCandidates(role) ==
    CASE role = "department" -> department_candidates
      [] role = "amount" -> amount_candidates
      [] role = "date" -> date_candidates
      [] role = "expense_type" -> expense_candidates

RoleRequired(role) == role # "expense_type"

\* mutant of detect_finance_columns: expense_type is picked as a required role
detect_expense_required(fields) ==
    LET cols == schema_cols(fields)
        department == pick_column(cols, department_candidates, TRUE)
        amount == pick_column(cols, amount_candidates, TRUE)
        date == pick_column(cols, date_candidates, TRUE)
        expense == pick_column(cols, expense_candidates, TRUE)
        raised(p) == [status |-> "ValueError", candidates |-> p.candidates,
                      department |-> NoName, amount |-> NoName, date |-> NoName,
                      expense_type |-> NoName, expense_is_none |-> TRUE]
    IN  IF department.status # "ok" THEN raised(department)
        ELSE IF amount.status # "ok" THEN raised(amount)
        ELSE IF date.status # "ok" THEN raised(date)
        ELSE IF expense.status # "ok" THEN raised(expense)
        ELSE [status |-> "ok", candidates |-> <<>>,
              department |-> department.name, amount |-> amount.name,
              date |-> date.name, expense_type |-> expense.name,
              expense_is_none |-> FALSE]

\* the four picks in program order; the first required role without a
\* column raises and the later picks are not made
detect_finance_columns(fields) ==
    LET cols == schema_cols(fields)
        department == pick_column(cols, department_candidates, TRUE)
        amount == pick_column(cols, amount_candidates, TRUE)
        date == pick_column(cols, date_candidates, TRUE)
        expense == pick_column(cols, expense_candidates, FALSE)
        raised(p) == [status |-> "ValueError", candidates |-> p.candidates,
                      department |-> NoName, amount |-> NoName, date |-> NoName,
                      expense_type |-> NoName, expense_is_none |-> TRUE]
    IN  IF department.status # "ok" THEN raised(department)
        ELSE IF amount.status # "ok" THEN raised(amount)
        ELSE IF date.status # "ok" THEN raised(date)
        ELSE [status |-> "ok", candidates |-> <<>>,
              department |-> department.name, amount |-> amount.name,
              date |-> date.name, expense_type |-> expense.name,
              expense_is_none |-> expense.status = "None"]

(***************************************************************************)
(* Report templates                                                        *)
(***************************************************************************)
\* A template is a sequence of pieces: literal text, or a {field}.  Rendered
\* SQL is a sequence of pieces too: the literal text as it was, or the
\* characters that replaced a field.
Lit(text) == [field |-> "", lit |-> text, chars |-> <<>>]

Field(name) == [field |-> name, lit |-> "", chars |-> <<>>]

Sub(value) == [field |-> "", lit |-> "", chars |-> value]

\* the backquote character (a TLA+ string cannot hold it)
Backquote == Lit("BACKQUOTE")

sql_dept_totals ==
    << Lit("\n        SELECT "),
       Field("department"),
       Lit(" AS department, SUM("),
       Field("amount"),
       Lit(") AS total_spent\n        FROM "),
       Backquote,
       Field("table_fq"),
       Backquote,
       Lit("\n        GROUP BY department\n        ORDER BY total_spent DESC\n        ") >>

sql_monthly_trend ==
    << Lit("\n        SELECT FORMAT_DATE('%Y-%m', DATE("),
       Field("date"),
       Lit(")) AS month,\n               SUM("),
       Field("amount"),
       Lit(") AS total_spent\n        FROM "),
       Backquote,
       Field("table_fq"),
       Backquote,
       Lit("\n        GROUP BY month\n        ORDER BY month\n        ") >>

sql_top_expense_types ==
    << Lit("\n        SELECT "),
       Field("expense_type"),
       Lit(" AS expense_type, SUM("),
       Field("amount"),
       Lit(") AS total_spent\n        FROM "),
       Backquote,
       Field("table_fq"),
       Backquote,
       Lit("\n        GROUP BY expense_type\n        ORDER BY total_spent DESC\n        LIMIT 5\n        ") >>

sql_dept_month_matrix ==
    << Lit("\n        SELECT FORMAT_DATE('%Y-%m', DATE("),
       Field("date"),
       Lit(")) AS month,\n               "),
       Field("department"),
       Lit(" AS department,\n               SUM("),
       Field("amount"),
       Lit(") AS total_spent\n        FROM "),
       Backquote,
       Field("table_fq"),
       Backquote,
       Lit("\n        GROUP BY month, department\n        ORDER BY month, department\n        ") >>

sql_avg_monthly_by_dept ==
    << Lit("\n        WITH monthly AS (\n          SELECT "),
       Field("department"),
       Lit(" AS department,\n                 FORMAT_DATE('%Y-%m', DATE("),
       Field("date"),
       Lit(")) AS month,\n                 SUM("),
       Field("amount"),
       Lit(") AS monthly_spent\n          FROM "),
       Backquote,
       Field("table_fq"),
       Backquote,
       Lit("\n          GROUP BY department, month\n        )\n        SELECT department, AVG(monthly_spent) AS avg_monthly_spent\n        FROM monthly\n        GROUP BY department\n        ORDER BY avg_monthly_spent DESC\n        ") >>

\* the catalog, in its order of definition
ReportIds ==
    <<"dept_totals", "monthly_trend", "top_expense_types",
      "dept_month_matrix", "avg_monthly_by_dept">>

REPORTS ==
    [rid \in Range(ReportIds) |->
        CASE rid = "dept_totals" -> sql_dept_totals
          [] rid = "monthly_trend" -> sql_monthly_trend
          [] rid = "top_expense_types" -> sql_top_expense_types
          [] rid = "dept_month_matrix" -> sql_dept_month_matrix
          [] rid = "avg_monthly_by_dept" -> sql_avg_monthly_by_dept]

\* str.format(**kw): every {field} is replaced by kw[field]; the templates
\* hold no escaped braces and no other replacement fields
format(template, kw) ==
    [i \in DOMAIN template |->
        IF template[i].field = "" THEN template[i] ELSE Sub(kw[template[i].field])]

NULL == <<"N", "U", "L", "L">>

\* mutant of expense_or_null: None is formatted as it is
expense_unguarded(cols) ==
    IF cols.expense_is_none THEN <<"N", "o", "n", "e">> ELSE cols.expense_type

\* cols["expense_type"] or "NULL"
expense_or_null(cols) ==
    IF cols.expense_is_none \/ cols.expense_type = <<>> THEN NULL ELSE cols.expense_type

\* REPORTS[report_id]["sql"].format(table_fq=..., department=..., ...)
render_report(report_id, table_fq, cols) ==
    format(REPORTS[report_id],
           [table_fq |-> table_fq,
            department |-> cols.department,
            amount |-> cols.amount,
            date |-> cols.date,
            expense_type |-> expense_or_null(cols)])

(***************************************************************************)
(* Paths and file names                                                    *)
(***************************************************************************)
BUCKET_NAME == <<"b", "k", "t">>

TmpDir == <<"/", "t", "m", "p", "/">>

UploadsDir == <<"u", "p", "l", "o", "a", "d", "s", "/">>

AnalysisDir == <<"a", "n", "a", "l", "y", "s", "i", "s", "_", "r", "e", "s", "u", "l", "t", "s", "/">>

ResultsCsv == <<"_", "r", "e", "s", "u", "l", "t", "s", ".", "c", "s", "v">>

AnalysisSuffix == <<"_", "a", "n", "a", "l", "y", "s", "i", "s">>

ext_csv == <<".", "c", "s", "v">>

ext_sql == <<".", "s", "q", "l">>

ext_xlsx == <<".", "x", "l", "s", "x">>

ext_xls == <<".", "x", "l", "s">>

ext_json == <<".", "j", "s", "o", "n">>

ext_parquet == <<".", "p", "a", "r", "q", "u", "e", "t">>

\* str.rfind(ch) + 1: the last position of ch, or 0
LastIndex(s, ch) ==
    LET at == {i \in DOMAIN s : s[i] = ch}
    IN  IF at = {} THEN 0 ELSE SetMax(at)

\* os.path.splitext: the extension starts at the last dot of the last path
\* component, unless only dots precede it there
splitext(p) ==
    LET sepIndex == LastIndex(p, "/")
        dotIndex == LastIndex(p, ".")
    IN  IF dotIndex > sepIndex /\ \E k \in (sepIndex + 1)..(dotIndex - 1) : p[k] # "."
        THEN <<SubSeq(p, 1, dotIndex - 1), SubSeq(p, dotIndex, Len(p))>>
        ELSE <<p, <<>>>>

\* str.replace(old, new) for single characters
Replace(s, old, new) == [i \in DOMAIN s |-> IF s[i] = old THEN new ELSE s[i]]

\* str.endswith(suffix)
EndsWith(s, suffix) ==
    /\ Len(suffix) <= Len(s)
    /\ SubSeq(s, Len(s) - Len(suffix) + 1, Len(s)) = suffix

\* os.path.splitext(filename)[0].replace(" ", "_").lower()
derived_table_name(filename) == Lower(Replace(splitext(filename)[1], " ", "_"))

(***************************************************************************)
(* Collaborators.  A handler runs on a context c: the state of the         *)
(* warehouse, store, queue and /tmp, the calls made so far, and the        *)
(* exception in flight (exc).  A step leaves c alone while an exception is *)
(* in flight.  The failAt-th collaborator call of a request raises (0:     *)
(* none does); a call also raises when the state makes it (NotFound).      *)
(***************************************************************************)
Flying(c) == c.exc # "none"

Raise(c, exc, detail) == [c EXCEPT !.exc = exc, !.detail = detail]

\* an except clause that swallows the exception
Caught(c) == [c EXCEPT !.exc = "none", !.detail = "none"]

\* a call of a collaborator: svc is bq, gcs, pubsub or fs; name is the table
\* name the caller put into the target or the SQL text (NoName: none)
Called(c, svc, op, name, target) ==
    [c EXCEPT !.calls = Append(@, [svc |-> svc, op |-> op, name |-> name,
                                   target |-> target,
                                   checked |-> name \in c.validated])]

Injected(c) == Len(c.calls) = c.failAt

\* validate_table_name on a handler's path
validated_name(c, table_name) ==
    IF Flying(c) THEN c
    ELSE LET v == validate_table_name(table_name)
         IN  IF v.ok THEN [c EXCEPT !.validated = @ \cup {v.value}]
             ELSE Raise(c, "ValueError", "invalid_identifier")

bq_get_dataset(c) ==
    IF Flying(c) THEN c
    ELSE LET d == Called(c, "bq", "get_dataset", NoName, BIGQUERY_DATASET)
         IN  IF Injected(d) THEN Raise(d, "Error", "get_dataset")
             ELSE IF ~d.dataset THEN Raise(d, "NotFound", "get_dataset")
             ELSE d

bq_create_dataset(c) ==
    IF Flying(c) THEN c
    ELSE LET d == Called(c, "bq", "create_dataset", NoName, BIGQUERY_DATASET)
         IN  IF Injected(d) \/ d.dataset THEN Raise(d, "Error", "create_dataset")
             ELSE [d EXCEPT !.dataset = TRUE]

\* get_table: the table or view of that id (in c.ret), or NotFound
bq_get_table(c, name, id) ==
    IF Flying(c) THEN c
    ELSE LET d == Called(c, "bq", "get_table", name, id)
         IN  IF Injected(d) THEN Raise(d, "Error", "get_table")
             ELSE IF ~d.dataset \/ id \notin DOMAIN d.tables
             THEN Raise(d, "NotFound", "get_table")
             ELSE [d EXCEPT !.ret = d.tables[id]]

Table(cols, content) == [kind |-> "TABLE", schema |-> cols, data |-> content, view_query |-> <<>>]

\* load_table_from_file(...) and load_job.result(), WRITE_TRUNCATE with
\* autodetect: the table holds the rows and the columns of the file
bq_load_truncate(c, name, id, content) ==
    IF Flying(c) THEN c
    ELSE LET d == Called(c, "bq", "load", name, id)
         IN  IF Injected(d) \/ ~d.dataset THEN Raise(d, "Error", "load")
             ELSE [d EXCEPT !.tables = (id :> Table(content.schema, content.rows)) @@ @]

\* query(sql).result() of SELECT * FROM the table: its columns (in c.ret)
bq_query_select(c, name, id) ==
    IF Flying(c) THEN c
    ELSE LET d == Called(c, "bq", "query", name, id)
         IN  IF Injected(d) \/ ~d.dataset \/ id \notin DOMAIN d.tables
             THEN Raise(d, "Error", "query")
             ELSE [d EXCEPT !.ret = d.tables[id]]

\* query(sql, destination=dest, WRITE_TRUNCATE).result()
bq_query_into(c, name, id, dest) ==
    IF Flying(c) THEN c
    ELSE LET d == Called(c, "bq", "query_into", name, id)
         IN  IF Injected(d) \/ ~d.dataset \/ id \notin DOMAIN d.tables
             THEN Raise(d, "Error", "query")
             ELSE [d EXCEPT !.tables =
                      (dest :> Table(d.tables[id].schema, d.tables[id].data)) @@ @]

\* blob.upload_from_filename
gcs_put(c, path, content) ==
    IF Flying(c) THEN c
    ELSE LET d == Called(c, "gcs", "put", NoName, path)
         IN  IF Injected(d) THEN Raise(d, "Error", "put")
             ELSE [d EXCEPT !.store = (path :> content) @@ @]

\* publisher.publish(topic_path, data=json.dumps(message_data)): the future
\* it returns is dropped, so a publish that fails raises nothing here
pubsub_publish(c, message) ==
    IF Flying(c) THEN c
    ELSE LET d == Called(c, "pubsub", "publish", NoName, message.name)
         IN  IF Injected(d) THEN d
             ELSE [d EXCEPT !.queue = Append(@, message)]

\* a local file written (uploaded_file.save, to_csv, csv.writer)
fs_write(c, path) ==
    IF Flying(c) THEN c
    ELSE LET d == Called(c, "fs", "write", NoName, path)
         IN  IF Injected(d) THEN Raise(d, "Error", "write")
             ELSE [d EXCEPT !.tmp = @ \cup {path}]

\* pd.read_excel(src) then df.to_csv(dst)
fs_excel_to_csv(c, src, dst) ==
    IF Flying(c) THEN c
    ELSE LET d == Called(c, "fs", "read_excel", NoName, src)
         IN  IF Injected(d) THEN Raise(d, "Error", "read_excel")
             ELSE fs_write(d, dst)

\* os.path.exists and os.remove
fs_remove(c, path) == [c EXCEPT !.tmp = @ \ {path}]

(***************************************************************************)
(* main.py: helpers on the upload path                                     *)
(***************************************************************************)
\* get_dataset, and create_dataset on any exception of it
ensure_dataset_exists(c) ==
    IF Flying(c) THEN c
    ELSE LET d == bq_get_dataset(c)
         IN  IF Flying(d) THEN bq_create_dataset(Caught(d)) ELSE d

\* mutant of load_to_bigquery: the load is issued before the store write
load_to_bigquery_load_first(c, file_path, filename, table_name, content) ==
    LET ext == Lower(splitext(filename)[2])
        c1 == ensure_dataset_exists(c)
        excel == ext \in {ext_xls, ext_xlsx}
        tmp_path == IF excel THEN TmpDir \o table_name \o ext_csv ELSE file_path
        c2 == IF excel THEN fs_excel_to_csv(c1, file_path, tmp_path)
              ELSE IF ext \in {ext_csv, ext_json, ext_parquet} THEN c1
              ELSE IF Flying(c1) THEN c1
              ELSE Raise(c1, "ValueError", "unsupported_file_type")
        c3 == bq_load_truncate(c2, table_name, TableId(table_name), content)
    IN  gcs_put(c3, UploadsDir \o filename, content)

load_to_bigquery(c, file_path, filename, table_name, content) ==
    LET ext == Lower(splitext(filename)[2])
        c1 == ensure_dataset_exists(c)
        excel == ext \in {ext_xls, ext_xlsx}
        tmp_path == IF excel THEN TmpDir \o table_name \o ext_csv ELSE file_path
        c2 == IF excel THEN fs_excel_to_csv(c1, file_path, tmp_path)
              ELSE IF ext \in {ext_csv, ext_json, ext_parquet} THEN c1
              ELSE IF Flying(c1) THEN c1
              ELSE Raise(c1, "ValueError", "unsupported_file_type")
        c3 == gcs_put(c2, UploadsDir \o filename, content)
    IN  bq_load_truncate(c3, table_name, TableId(table_name), content)

run_analysis(c, table_name) ==
    LET id == TableId(table_name)
        c1 == ensure_dataset_exists(c)
        got == bq_get_table(c1, table_name, id)
        c2 == IF Flying(c1) \/ ~Flying(got) THEN got
              ELSE Raise(Caught(got), "ValueError", "table_not_found")
        c3 == bq_query_select(c2, table_name, id)
        local_csv == TmpDir \o table_name \o ResultsCsv
        c4 == fs_write(c3, local_csv)
        c5 == gcs_put(c4, AnalysisDir \o table_name \o ResultsCsv,
                      [rows |-> <<"results">>, schema |-> <<>>])
    IN  bq_query_into(c5, table_name, id, TableId(table_name \o AnalysisSuffix))

(***************************************************************************)
(* main.py: index, the upload route                                        *)
(***************************************************************************)
\* mutant of reject_unsupported: the dataset is ensured before the rejection
reject_after_dataset(c) ==
    LET d == ensure_dataset_exists(c)
    IN  IF Flying(d) THEN d ELSE Raise(d, "Return", "unsupported_format")

\* the early return of the else branch
reject_unsupported(c) ==
    IF Flying(c) THEN c ELSE Raise(c, "Return", "unsupported_format")

ImportMessage(filename) == [name |-> filename, bucket |-> BUCKET_NAME]

\* mutant of forward_sql: the message is published again
forward_sql_twice(c, filename, content) ==
    pubsub_publish(pubsub_publish(gcs_put(c, UploadsDir \o filename, content),
                                  ImportMessage(filename)),
                   ImportMessage(filename))

\* the .sql branch: the raw file to the store, then the message
forward_sql(c, filename, content) ==
    pubsub_publish(gcs_put(c, UploadsDir \o filename, content), ImportMessage(filename))

\* the Excel branch: converted to /tmp/<table>.csv, then loaded as <table>.csv
load_excel(c, file_path, table_name, content) ==
    LET csv_path == TmpDir \o table_name \o ext_csv
    IN  load_to_bigquery(fs_excel_to_csv(c, file_path, csv_path),
                         csv_path, table_name \o ext_csv, table_name, content)

\* mutant of route_upload: .parquet is not in the list of loaded extensions
route_upload_no_parquet(c, file_ext, file_path, filename, table_name, content) ==
    IF file_ext = ext_sql THEN forward_sql(c, filename, content)
    ELSE IF file_ext \in {ext_xlsx, ext_xls}
    THEN load_excel(c, file_path, table_name, content)
    ELSE IF file_ext \in {ext_csv, ext_json}
    THEN load_to_bigquery(c, file_path, filename, table_name, content)
    ELSE reject_unsupported(c)

\* if / elif / else on file_ext
route_upload(c, file_ext, file_path, filename, table_name, content) ==
    IF file_ext = ext_sql THEN forward_sql(c, filename, content)
    ELSE IF file_ext \in {ext_xlsx, ext_xls}
    THEN load_excel(c, file_path, table_name, content)
    ELSE IF file_ext \in {ext_csv, ext_json, ext_parquet}
    THEN load_to_bigquery(c, file_path, filename, table_name, content)
    ELSE reject_unsupported(c)

\* mutant of cleanup: the converted CSV is left behind
cleanup_upload_only(c, file_path, table_name, saved) == fs_remove(c, file_path)

\* the finally block; table_name is unbound when save raised, and the
\* NameError is swallowed after file_path is removed
cleanup(c, file_path, table_name, saved) ==
    LET c1 == fs_remove(c, file_path)
    IN  IF saved THEN fs_remove(c1, TmpDir \o table_name \o ext_csv) ELSE c1

index(c, file) ==
    LET filename == file.filename
        file_ext == Lower(splitext(filename)[2])
        file_path == TmpDir \o filename
        table_name == derived_table_name(filename)
        c1 == fs_write(c, file_path)
        c2 == validated_name(c1, table_name)
        c3 == route_upload(c2, file_ext, file_path, filename, table_name, file.content)
        c4 == run_analysis(c3, table_name)
    IN  IF filename = <<>> THEN Raise(c, "Return", "no_file")
        ELSE cleanup(c4, file_path, table_name, ~Flying(c1))

(***************************************************************************)
(* main_dev.py: index with emulator support                                *)
(***************************************************************************)
ensure_dataset_exists_dev(c, env) ==
    IF env.development /\ env.bigquery_emulator THEN c ELSE ensure_dataset_exists(c)

load_to_bigquery_dev(c, env, file_path, filename, table_name, content) ==
    LET ext == Lower(splitext(filename)[2])
        c1 == ensure_dataset_exists_dev(c, env)
        excel == ext \in {ext_xls, ext_xlsx}
        tmp_path == IF excel THEN TmpDir \o table_name \o ext_csv ELSE file_path
        c2 == IF excel THEN fs_excel_to_csv(c1, file_path, tmp_path)
              ELSE IF ext \in {ext_csv, ext_json, ext_parquet} THEN c1
              ELSE IF Flying(c1) THEN c1
              ELSE Raise(c1, "ValueError", "unsupported_file_type")
        c3 == gcs_put(c2, UploadsDir \o filename, content)
    IN  bq_load_truncate(c3, table_name, TableId(table_name), content)

\* the .sql branch: with PUBSUB_EMULATOR_HOST set the message is only logged
forward_sql_dev(c, env, filename, content) ==
    LET c1 == gcs_put(c, UploadsDir \o filename, content)
    IN  IF env.pubsub_emulator THEN c1
        ELSE pubsub_publish(c1, ImportMessage(filename))

route_upload_dev(c, env, file_ext, file_path, filename, table_name, content) ==
    IF file_ext = ext_sql THEN forward_sql_dev(c, env, filename, content)
    ELSE IF file_ext \in {ext_xlsx, ext_xls}
    THEN LET csv_path == TmpDir \o table_name \o ext_csv
         IN  load_to_bigquery_dev(fs_excel_to_csv(c, file_path, csv_path), env,
                                  csv_path, table_name \o ext_csv, table_name, content)
    ELSE IF file_ext \in {ext_csv, ext_json, ext_parquet}
    THEN load_to_bigquery_dev(c, env, file_path, filename, table_name, content)
    ELSE reject_unsupported(c)

index_dev(c, env, file) ==
    LET filename == file.filename
        file_ext == Lower(splitext(filename)[2])
        file_path == TmpDir \o filename
        table_name == derived_table_name(filename)
        c1 == fs_write(c, file_path)
        c2 == validated_name(c1, table_name)
        c3 == route_upload_dev(c2, env, file_ext, file_path, filename, table_name,
                               file.content)
    IN  IF filename = <<>> THEN Raise(c, "Return", "no_file")
        ELSE cleanup(c3, file_path, table_name, ~Flying(c1))

(***************************************************************************)
(* main_simple.py: index on mock clients (no store, warehouse or queue)    *)
(***************************************************************************)
\* pd.read_excel / read_csv / read_json of the saved file
fs_read(c, path) ==
    IF Flying(c) THEN c
    ELSE LET d == Called(c, "fs", "read", NoName, path)
         IN  IF Injected(d) THEN Raise(d, "Error", "read") ELSE d

\* a method of a Mock* client: it logs, changes nothing and never raises
mock_call(c, op, target) ==
    IF Flying(c) THEN c ELSE Called(c, "mock", op, NoName, target)

\* the mock loader: it reads the file and hands it to the mock store
load_to_bigquery_mock(c, file_path, filename, table_name) ==
    LET ext == Lower(splitext(filename)[2])
        c1 == mock_call(c, "load", TableId(table_name))
        c2 == IF ext \in {ext_xls, ext_xlsx, ext_csv, ext_json} THEN fs_read(c1, file_path)
              ELSE IF Flying(c1) THEN c1
              ELSE Raise(c1, "ValueError", "unsupported_file_type")
    IN  mock_call(c2, "put", UploadsDir \o filename)

route_upload_simple(c, file_ext, file_path, filename, table_name) ==
    IF file_ext = ext_sql
    THEN mock_call(mock_call(c, "put", UploadsDir \o filename), "publish", filename)
    ELSE IF file_ext \in {ext_xlsx, ext_xls, ext_csv, ext_json}
    THEN load_to_bigquery_mock(c, file_path, filename, table_name)
    ELSE reject_unsupported(c)

index_simple(c, file) ==
    LET filename == file.filename
        file_ext == Lower(splitext(filename)[2])
        file_path == TmpDir \o filename
        table_name == derived_table_name(filename)
        c1 == fs_write(c, file_path)
        c2 == validated_name(c1, table_name)
        c3 == route_upload_simple(c2, file_ext, file_path, filename, table_name)
    IN  IF filename = <<>> THEN Raise(c, "Return", "no_file")
        ELSE fs_remove(c3, file_path)

(***************************************************************************)
(* functions/process_upload: triggered by an object of the bucket          *)
(***************************************************************************)
\* load_table_from_uri(...) and result() with the default write
\* disposition of a load job: the rows are appended; the warehouse refuses
\* a table id that holds a slash
bq_load_append(c, name, id, content) ==
    IF Flying(c) THEN c
    ELSE LET d == Called(c, "bq", "load", name, id)
             old == IF id \in DOMAIN d.tables THEN d.tables[id]
                    ELSE Table(content.schema, <<>>)
         IN  IF Injected(d) \/ ~d.dataset \/ "/" \in Range(id)
             THEN Raise(d, "Error", "load")
             ELSE [d EXCEPT !.tables =
                      (id :> Table(old.schema, old.data \o content.rows)) @@ @]

process_upload(c, event) ==
    LET file_name == event.name
        table_name == Replace(file_name, ".", "_")
    IN  IF EndsWith(file_name, ext_csv) \/ EndsWith(file_name, ext_json)
        THEN bq_load_append(c, table_name, TableId(table_name), event.content)
        ELSE IF EndsWith(file_name, ext_sql)
        THEN pubsub_publish(c, [name |-> file_name, bucket |-> event.bucket])
        ELSE c

(***************************************************************************)
(* Responses                                                               *)
(***************************************************************************)
\* what the route returns: the except clauses of index map ValueError to
\* 400 and any other exception to 500
Respond(c) ==
    CASE c.exc = "none" -> [status |-> 200, kind |-> "ok", detail |-> "none"]
      [] c.exc = "Return" -> [status |-> 400, kind |-> "rejected", detail |-> c.detail]
      [] c.exc = "ValueError" -> [status |-> 400, kind |-> "ValueError", detail |-> c.detail]
      [] OTHER -> [status |-> 500, kind |-> "Error", detail |-> c.detail]

\* a background function has no except clause: an exception leaves it
Outcome(c) ==
    IF c.exc = "none" THEN [status |-> 200, kind |-> "ok", detail |-> "none"]
    ELSE [status |-> 500, kind |-> "raised", detail |-> c.detail]

\* a route whose except clause answers 500 to every exception, or that has
\* none
Respond500(c) ==
    CASE c.exc = "none" -> [status |-> 200, kind |-> "ok", detail |-> "none"]
      [] c.exc = "Return" -> [status |-> 400, kind |-> "rejected", detail |-> c.detail]
      [] OTHER -> [status |-> 500, kind |-> "Error", detail |-> c.detail]

(***************************************************************************)
(* main.py: reports                                                        *)
(***************************************************************************)
\* _table_schema_cols and _detect_finance_columns: the roles of the columns
\* that get_table returns (left in c.ret)
detect_columns(c, table_name) ==
    LET c1 == bq_get_table(c, table_name, TableId(table_name))
    IN  IF Flying(c1) THEN c1
        ELSE IF detect_finance_columns(c1.ret.schema).status = "ok" THEN c1
        ELSE Raise(c1, "ValueError", "no_column")

\* bq_client.query(sql) and job.result() of a rendered report
bq_query_report(c, table_name) ==
    IF Flying(c) THEN c
    ELSE LET d == Called(c, "bq", "query", table_name, TableId(table_name))
         IN  IF Injected(d) \/ ~d.dataset \/ TableId(table_name) \notin DOMAIN d.tables
             THEN Raise(d, "Error", "query")
             ELSE d

\* int(x): the text is a decimal literal
IsIntLiteral(text) == text # <<>> /\ \A i \in DOMAIN text : text[i] \in Digits

\* the body of run_report and of download_report after their parameter
\* checks: _fq_table, _detect_finance_columns, format, query
report_query(c, table) ==
    bq_query_report(detect_columns(validated_name(c, table), table), table)

\* int(data.get("limit") or 1000) stands before the checks and outside the
\* try block
run_report(c, data) ==
    IF data.limit # <<>> /\ ~IsIntLiteral(data.limit) THEN Raise(c, "Unhandled", "int")
    ELSE IF data.report \notin DOMAIN REPORTS THEN Raise(c, "Return", "unknown_report")
    ELSE IF data.table = <<>> THEN Raise(c, "Return", "missing_table")
    ELSE report_query(c, data.table)

download_report(c, args) ==
    IF args.report \notin DOMAIN REPORTS \/ args.table = <<>>
    THEN Raise(c, "Return", "missing_or_invalid_parameters")
    ELSE report_query(c, args.table)

(***************************************************************************)
(* main.py: publishing the reports as views                                *)
(***************************************************************************)
ReportIdText ==
    [rid \in Range(ReportIds) |->
        CASE rid = "dept_totals" -> <<"d", "e", "p", "t", "_", "t", "o", "t", "a", "l", "s">>
          [] rid = "monthly_trend" ->
                <<"m", "o", "n", "t", "h", "l", "y", "_", "t", "r", "e", "n", "d">>
          [] rid = "top_expense_types" ->
                <<"t", "o", "p", "_", "e", "x", "p", "e", "n", "s", "e", "_",
                  "t", "y", "p", "e", "s">>
          [] rid = "dept_month_matrix" ->
                <<"d", "e", "p", "t", "_", "m", "o", "n", "t", "h", "_",
                  "m", "a", "t", "r", "i", "x">>
          [] rid = "avg_monthly_by_dept" ->
                <<"a", "v", "g", "_", "m", "o", "n", "t", "h", "l", "y", "_",
                  "b", "y", "_", "d", "e", "p", "t">>]

\* mutant of view_name: one underscore between the table and the report id
view_name_single(table_name, rid) ==
    table_name \o <<"_">> \o ReportIdText[rid] \o <<"_", "v">>

\* f"{validated_table_name}__{rid}_v"
view_name(table_name, rid) == table_name \o <<"_", "_">> \o ReportIdText[rid] \o <<"_", "v">>

View(sql) == [kind |-> "VIEW", schema |-> <<>>, data |-> <<>>, view_query |-> sql]

\* mutant of bq_update_view: the new text is merged into the old one
bq_update_view_merge(c, name, id, sql) ==
    IF Flying(c) THEN c
    ELSE LET d == Called(c, "bq", "update_table", name, id)
         IN  IF Injected(d) \/ id \notin DOMAIN d.tables \/ d.tables[id].kind # "VIEW"
             THEN Raise(d, "Error", "update_table")
             ELSE [d EXCEPT !.tables = (id :> View(d.tables[id].view_query \o sql)) @@ @]

\* update_table(existing, ["view_query"]); a table cannot be turned into a view
bq_update_view(c, name, id, sql) ==
    IF Flying(c) THEN c
    ELSE LET d == Called(c, "bq", "update_table", name, id)
         IN  IF Injected(d) \/ id \notin DOMAIN d.tables \/ d.tables[id].kind # "VIEW"
             THEN Raise(d, "Error", "update_table")
             ELSE [d EXCEPT !.tables = (id :> View(sql)) @@ @]

\* create_table(table) with table.view_query set
bq_create_view(c, name, id, sql) ==
    IF Flying(c) THEN c
    ELSE LET d == Called(c, "bq", "create_table", name, id)
         IN  IF Injected(d) \/ ~d.dataset \/ id \in DOMAIN d.tables
             THEN Raise(d, "Error", "create_table")
             ELSE [d EXCEPT !.tables = (id :> View(sql)) @@ @]

create_or_replace_view(c, name, view_id, sql) ==
    LET got == bq_get_table(c, name, view_id)
    IN  IF Flying(c) THEN c
        ELSE IF ~Flying(got) THEN bq_update_view(got, name, view_id, sql)
        ELSE IF got.exc = "NotFound" THEN bq_create_view(Caught(got), name, view_id, sql)
        ELSE got

\* the loop over REPORTS.items(), from the k-th report on
RECURSIVE publish_views(_, _, _, _)
publish_views(c, table_name, cols, k) ==
    IF k > Len(ReportIds) THEN c
    ELSE LET rid == ReportIds[k]
             view_fq == TableId(view_name(table_name, rid))
             sql == render_report(rid, TableId(table_name), cols)
             c1 == create_or_replace_view(c, table_name, view_fq, sql)
             c2 == IF Flying(c1) THEN c1
                   ELSE [c1 EXCEPT !.created = (rid :> view_fq) @@ @]
         IN  publish_views(c2, table_name, cols, k + 1)

\* the dataset is ensured first, the name is validated second
publish_looker_views_for_table(c, table_name) ==
    LET c1 == ensure_dataset_exists(c)
        c2 == validated_name(c1, table_name)
        c3 == detect_columns(c2, table_name)
    IN  IF Flying(c3) THEN c3
        ELSE publish_views(c3, table_name, detect_finance_columns(c3.ret.schema), 1)

publish_looker_views(c, data) ==
    IF data.table = <<>> THEN Raise(c, "Return", "missing_table")
    ELSE publish_looker_views_for_table(c, data.table)

\* the JSON of publish_looker_views: the mapping on success, the error
\* text and no mapping otherwise
RespondPublish(c) ==
    [views |-> IF Flying(c) THEN <<>> ELSE c.created] @@ Respond500(c)

(***************************************************************************)
(* main.py: download_bq                                                    *)
(***************************************************************************)
AnalysisCsv == <<"_", "a", "n", "a", "l", "y", "s", "i", "s", ".", "c", "s", "v">>

download_bq(c, args) ==
    LET table_name == args.table
        c1 == run_analysis(c, table_name)
        c2 == bq_query_select(c1, table_name, TableId(table_name \o AnalysisSuffix))
    IN  IF table_name = <<>> THEN Raise(c, "Return", "missing_table")
        ELSE fs_write(c2, TmpDir \o table_name \o AnalysisCsv)

(***************************************************************************)
(* functions/run_analysis: the HTTP function                               *)
(***************************************************************************)
possible_paths(table_name) ==
    << table_name \o ext_csv,
       UploadsDir \o table_name \o ext_csv,
       <<"d", "a", "t", "a", "/">> \o table_name \o ext_csv,
       <<"r", "a", "w", "/">> \o table_name \o ext_csv >>

\* blob.exists()
gcs_exists(c, path) ==
    IF Flying(c) THEN c
    ELSE LET d == Called(c, "gcs", "exists", NoName, path)
         IN  IF Injected(d) THEN Raise(d, "Error", "exists") ELSE d

\* the loop over possible_paths, which breaks at the first blob that exists
RECURSIVE find_csv(_, _, _)
find_csv(c, paths, k) ==
    IF k > Len(paths) \/ Flying(c) THEN c
    ELSE LET d == gcs_exists(c, paths[k])
         IN  IF ~Flying(d) /\ paths[k] \in DOMAIN d.store THEN d
             ELSE find_csv(d, paths, k + 1)

create_table_from_csv_if_not_exists(c, table_name) ==
    LET got == bq_get_table(c, table_name, TableId(table_name))
        paths == possible_paths(table_name)
        found == {k \in DOMAIN paths : paths[k] \in DOMAIN c.store}
        c1 == find_csv(Caught(got), paths, 1)
    IN  IF Flying(c) \/ ~Flying(got) THEN got
        ELSE IF Flying(c1) THEN c1
        ELSE IF found = {} THEN Raise(c1, "ValueError", "no_csv")
        ELSE bq_load_append(c1, table_name, TableId(table_name),
                            c.store[paths[SetMin(found)]])

fallback_schema ==
    << <<"d", "e", "p", "a", "r", "t", "m", "e", "n", "t">>,
       <<"a", "m", "o", "u", "n", "t">>,
       <<"d", "a", "t", "e">>,
       <<"e", "x", "p", "e", "n", "s", "e", "_", "t", "y", "p", "e">> >>

fn_results_file == <<"/", "t", "m", "p", "/", "r", "e", "s", "u", "l", "t", "s", ".", "c", "s", "v">>

\* run_analysis(request) of functions/run_analysis/main.py
fn_run_analysis(c, args) ==
    LET table_name == args.table
        id == TableId(table_name)
        c1 == create_table_from_csv_if_not_exists(c, table_name)
        c2 == bq_query_select(c1, table_name, id)
        c3 == fs_write(c2, fn_results_file)
        c4 == gcs_put(c3, AnalysisDir \o table_name \o ResultsCsv,
                      [rows |-> <<"results">>, schema |-> <<>>])
        got == bq_get_table(c4, table_name, id)
        c5 == IF Flying(c4) THEN c4 ELSE Caught(got)
        dynamic_schema == IF Flying(got) THEN fallback_schema ELSE got.ret.schema
    IN  IF table_name = <<>> THEN Raise(c, "Return", "missing_table")
        ELSE bq_load_truncate(c5, table_name, TableId(table_name \o AnalysisSuffix),
                              [rows |-> <<"results">>, schema |-> dynamic_schema])

(***************************************************************************)
(* functions/import_sql_to_cloudsql: the worker behind the import topic    *)
(***************************************************************************)
\* the f-string of a value that dict.get did not find
NoneText == <<"N", "o", "n", "e">>

\* f"gs://{bucket_name}/{file_name}"
gcs_path(message) ==
    <<"g", "s", ":", "/", "/">>
        \o (IF "bucket" \in DOMAIN message THEN message.bucket ELSE NoneText)
        \o <<"/">> \o message.name

INSTANCE_NAME == <<"d", "b">>

DATABASE_NAME == <<"d", "a", "t", "a">>

\* the arguments of gcloud sql import sql: the instance, the dump location
\* and the database
sql_import(message) ==
    [instance |-> INSTANCE_NAME, uri |-> gcs_path(message), database |-> DATABASE_NAME]

\* how subprocess.run(..., check=True) can end: exit status 0, a non-zero
\* exit status, or the executable cannot be started
RestoreOutcomes == {"ok", "CalledProcessError", "FileNotFoundError"}

\* import_sql(event, context) on a decoded message; outcome is how the
\* gcloud process ends if it is started.  A dict without the key "name"
\* gives None, and None has no endswith.
import_sql(message, outcome) ==
    IF "name" \notin DOMAIN message
    THEN [result |-> "raised", exc |-> "AttributeError", restored |-> <<>>]
    ELSE IF ~EndsWith(message.name, ext_sql)
    THEN [result |-> "returned", exc |-> "none", restored |-> <<>>]
    ELSE IF outcome \in {"ok", "CalledProcessError"}
    THEN [result |-> "returned", exc |-> "none", restored |-> <<sql_import(message)>>]
    ELSE [result |-> "raised", exc |-> outcome, restored |-> <<sql_import(message)>>]

NoDelivery ==
    [message |-> [bucket |-> <<>>], outcome |-> "none", result |-> "none", exc |-> "none",
     restored |-> <<>>]

WorkerIdle == restores = <<>> /\ wlast = NoDelivery

RaceIdle == rviews = <<>> /\ rprocs = <<>>

HandOffIdle == lifecycle = <<>> /\ qids = <<>>

UploadRaceIdle == tmpfiles = <<>> /\ uprocs = <<>>

LimiterIdle ==
    /\ rate_limit_storage = <<>>
    /\ clock = 0
    /\ lprocs = <<>>
    /\ admitted = <<>>

AuxIdle == HandOffIdle /\ UploadRaceIdle /\ LimiterIdle

(***************************************************************************)
(* Validator harness: every input string, then one call                    *)
(***************************************************************************)
MaxLen == 3

Alphabet == {"a", "Z", "7", "_", "-", "\n"}

RECURSIVE SeqsUpTo(_, _)
SeqsUpTo(S, n) ==
    IF n = 0 THEN {<<>>}
    ELSE LET shorter == SeqsUpTo(S, n - 1)
         IN  shorter \cup {Append(s, c) : s \in shorter, c \in S}

Capitalize(s) == [i \in DOMAIN s |-> IF i = 1 THEN UpperChar(s[i]) ELSE LowerChar(s[i])]

KeywordInputs ==
    UNION { { k, Lower(k), Capitalize(k), k \o <<"_">>, <<"_">> \o k,
              k \o <<"\n">>, Lower(k) \o <<"\n">> } : k \in sql_keywords }

LongInputs ==
    UNION { { Rep("a", n), Rep("a", n) \o <<"\n">>, Rep("a", n) \o <<"-">> } :
            n \in {MaxIdentLen - 1, MaxIdentLen, MaxIdentLen + 1} }

NameInputs == SeqsUpTo(Alphabet, MaxLen) \cup KeywordInputs \cup LongInputs

Pending == [ok |-> FALSE, value |-> <<>>, error |-> "pending"]

IdlePick == [role |-> "none", status |-> "idle", name |-> <<>>, candidates |-> <<>>]

IdleRoles ==
    [status |-> "idle", candidates |-> <<>>, department |-> <<>>, amount |-> <<>>,
     date |-> <<>>, expense_type |-> <<>>, expense_is_none |-> TRUE]

IdleRender == [report |-> "none", status |-> "idle", sql |-> <<>>]

ResolverIdle ==
    /\ schema = <<>>
    /\ picked = IdlePick
    /\ roles = IdleRoles
    /\ rendered = IdleRender

\* the environment of main_dev.py: IS_DEVELOPMENT, BIGQUERY_EMULATOR_HOST,
\* PUBSUB_EMULATOR_HOST
Env(development, bigquery_emulator, pubsub_emulator) ==
    [development |-> development, bigquery_emulator |-> bigquery_emulator,
     pubsub_emulator |-> pubsub_emulator]

Production == Env(FALSE, FALSE, FALSE)

NoRequest ==
    [handler |-> "none", app |-> "none", filename |-> <<>>, table |-> <<>>,
     report |-> "none", limit |-> <<>>, env |-> Production, failAt |-> 0]

NoResponse == [status |-> 0, kind |-> "none", detail |-> "none"]

PipelineIdle ==
    /\ dataset = FALSE
    /\ tables = <<>>
    /\ store = <<>>
    /\ queue = <<>>
    /\ tmp = {}
    /\ req = NoRequest
    /\ resp = NoResponse
    /\ calls = <<>>
    /\ nreq = 0
    /\ WorkerIdle
    /\ RaceIdle
    /\ AuxIdle

InitValidator ==
    /\ vName \in NameInputs
    /\ vResult = Pending
    /\ ResolverIdle
    /\ PipelineIdle

Validate ==
    /\ vResult = Pending
    /\ vResult' = validate_table_name(vName)
    /\ UNCHANGED <<vName, resolverVars, pipelineVars>>

NextValidator == Validate

SpecValidator == InitValidator /\ [][NextValidator]_vars

\* what the validator is documented to accept: 1 to 128 word characters,
\* not a reserved keyword in any letter case
IsStrictIdentifier(s) ==
    /\ Len(s) \in 1..MaxIdentLen
    /\ \A i \in DOMAIN s : IsWordChar(s[i])
    /\ Upper(s) \notin sql_keywords

\* C1: validate_table_name accepts a string, returning it unchanged, exactly
\* when it is 1 to 128 letters, digits or underscores and not a reserved
\* keyword (any letter case); every other string is rejected.
C1_AcceptsExactlyStrictIdentifiers ==
    vResult # Pending =>
        /\ vResult.ok <=> IsStrictIdentifier(vName)
        /\ vResult.ok => vResult.value = vName

(***************************************************************************)
(* Resolver harness: every table schema, then one _pick_column call, or    *)
(* _detect_finance_columns followed by the rendering of one report         *)
(***************************************************************************)
MaxCols == 3

c_dept == <<"d", "e", "p", "t">>

c_DEPT == <<"D", "E", "P", "T">>

c_department == <<"d", "e", "p", "a", "r", "t", "m", "e", "n", "t">>

c_amt == <<"a", "m", "t">>

c_amount == <<"a", "m", "o", "u", "n", "t">>

c_value == <<"v", "a", "l", "u", "e">>

c_txn_date == <<"t", "x", "n", "_", "d", "a", "t", "e">>

c_period == <<"p", "e", "r", "i", "o", "d">>

c_Period == <<"P", "e", "r", "i", "o", "d">>

c_category == <<"c", "a", "t", "e", "g", "o", "r", "y">>

c_region == <<"r", "e", "g", "i", "o", "n">>

ColPool ==
    { c_dept, c_DEPT, c_department, c_amt, c_amount, c_value,
      c_txn_date, c_period, c_Period, c_category, c_region }

\* the warehouse keeps column names unique without regard to letter case
RECURSIVE Schemas(_)
Schemas(n) ==
    IF n = 0 THEN {<<>>}
    ELSE LET shorter == Schemas(n - 1)
         IN  shorter \cup
             { Append(s, c) : s \in {t \in shorter : Len(t) = n - 1},
                              c \in ColPool } 

CaseDistinct(s) == \A i, j \in DOMAIN s : i # j => Lower(s[i]) # Lower(s[j])

\* the schemas the specification's examples name, and one with all four roles
ExampleSchemas ==
    { <<c_region, c_value, c_period, c_category>>,
      <<c_dept, c_amt, c_txn_date>>,
      <<c_category, c_Period, c_value, c_DEPT>>,
      <<c_department, c_dept, c_amount, c_amt, c_txn_date>> }

HarnessTable == <<"T">>

InitResolver ==
    /\ schema \in {s \in Schemas(MaxCols) : CaseDistinct(s)} \cup ExampleSchemas
    /\ picked = IdlePick
    /\ roles = IdleRoles
    /\ rendered = IdleRender
    /\ vName = <<>>
    /\ vResult = Pending
    /\ PipelineIdle

ResolverFresh == picked = IdlePick /\ roles = IdleRoles /\ rendered = IdleRender

PickColumn(role) ==
    /\ ResolverFresh
    /\ picked' = [role |-> role] @@
                 pick_column(schema_cols(schema), RoleCandidates(role), RoleRequired(role))
    /\ UNCHANGED <<schema, roles, rendered, validatorVars, pipelineVars>>

DetectFinanceColumns ==
    /\ ResolverFresh
    /\ roles' = detect_finance_columns(schema)
    /\ UNCHANGED <<schema, picked, rendered, validatorVars, pipelineVars>>

RenderReport(rid) ==
    /\ roles.status = "ok"
    /\ rendered = IdleRender
    /\ rendered' = [report |-> rid, status |-> "ok",
                    sql |-> render_report(rid, TableId(HarnessTable), roles)]
    /\ UNCHANGED <<schema, picked, roles, validatorVars, pipelineVars>>

NextResolver ==
    \/ \E role \in Roles : PickColumn(role)
    \/ DetectFinanceColumns
    \/ \E rid \in Range(ReportIds) : RenderReport(rid)

SpecResolver == InitResolver /\ [][NextResolver]_vars

Swap(s, i, j) ==
    [k \in DOMAIN s |-> IF k = i THEN s[j] ELSE IF k = j THEN s[i] ELSE s[k]]

\* every column name of the table in another letter case
Recase(s, f) ==
    [k \in DOMAIN s |->
        CASE f = "upper" -> Upper(s[k])
          [] f = "lower" -> Lower(s[k])
          [] f = "title" -> Capitalize(s[k])]

\* the candidates of a role that some column of the table equals, ignoring
\* letter case
CandidateHits(fields, role) ==
    {i \in DOMAIN RoleCandidates(role) :
        \E j \in DOMAIN fields : Lower(fields[j]) = Lower(RoleCandidates(role)[i])}

PickOf(fields, role) ==
    pick_column(schema_cols(fields), RoleCandidates(role), RoleRequired(role))

\* C4: the column resolved for a role is the table's column that equals,
\* ignoring letter case, the earliest candidate of the role with any match;
\* it is spelled as in the table, and neither the order of the columns nor
\* the letter case of their names changes which column is resolved.
C4_EarliestCandidateWins ==
    picked.status # "idle" =>
        LET cand == RoleCandidates(picked.role)
            hits == CandidateHits(schema, picked.role)
        IN  /\ picked.status = "ok" <=> hits # {}
            /\ picked.status = "ok" =>
                   /\ picked.name \in Range(schema)
                   /\ Lower(picked.name) = Lower(cand[SetMin(hits)])
            /\ \A i \in 1..(Len(schema) - 1) :
                   LET other == PickOf(Swap(schema, i, i + 1), picked.role)
                   IN  other.status = picked.status /\ other.name = picked.name
            /\ \A f \in {"upper", "lower", "title"} :
                   LET recased == Recase(schema, f)
                       other == PickOf(recased, picked.role)
                   IN  /\ other.status = picked.status
                       /\ Lower(other.name) = Lower(picked.name)
                       /\ other.status = "ok" => other.name \in Range(recased)

\* two candidates of the department role are columns; the earlier one wins
C4_Witness ==
    /\ picked.role = "department"
    /\ picked.status = "ok"
    /\ c_DEPT \in Range(schema)
    /\ c_department \in Range(schema)
    /\ picked.name = c_department

HasCandidate(fields, role) == CandidateHits(fields, role) # {}

ExampleUnresolvable == <<c_region, c_value, c_period, c_category>>

\* C5: resolution succeeds exactly when department, amount and date each
\* have a candidate column; otherwise it fails naming a required role that
\* has none (department for {region, value, period, category}); a missing
\* expense_type never fails and resolves to None.
C5_RequiredRolesDecide ==
    roles.status # "idle" =>
        /\ roles.status = "ok" <=>
               /\ HasCandidate(schema, "department")
               /\ HasCandidate(schema, "amount")
               /\ HasCandidate(schema, "date")
        /\ roles.status # "ok" =>
               /\ roles.status = "ValueError"
               /\ \E r \in Roles :
                      /\ RoleRequired(r)
                      /\ ~HasCandidate(schema, r)
                      /\ roles.candidates = RoleCandidates(r)
        /\ schema = ExampleUnresolvable =>
               roles.status = "ValueError" /\ roles.candidates = department_candidates
        /\ (roles.status = "ok" /\ ~HasCandidate(schema, "expense_type")) =>
               roles.expense_is_none
        /\ (roles.status = "ok" /\ HasCandidate(schema, "expense_type")) =>
               ~roles.expense_is_none /\ roles.expense_type \in Range(schema)

C5_Witness ==
    /\ schema = ExampleUnresolvable
    /\ roles.status = "ValueError"

ExampleSchema == <<c_dept, c_amt, c_txn_date>>

\* C6: a rendered report is the template with each placeholder replaced by
\* the table id or the resolved column, {expense_type} by the column or by
\* NULL when there is none, and every other piece unchanged; dept_totals for
\* {dept, amt, txn_date} names dept and amt and holds no NULL.
C6_RenderIsSubstitution ==
    rendered.status = "ok" =>
        LET template == REPORTS[rendered.report]
            value(field) ==
                CASE field = "table_fq" -> TableId(HarnessTable)
                  [] field = "department" -> roles.department
                  [] field = "amount" -> roles.amount
                  [] field = "date" -> roles.date
                  [] field = "expense_type" ->
                        IF roles.expense_is_none THEN NULL ELSE roles.expense_type
        IN  /\ Len(rendered.sql) = Len(template)
            /\ \A i \in DOMAIN template :
                   IF template[i].field = ""
                   THEN rendered.sql[i] = template[i]
                   ELSE rendered.sql[i] = Sub(value(template[i].field))
            /\ (schema = ExampleSchema /\ rendered.report = "dept_totals") =>
                   /\ Sub(c_dept) \in Range(rendered.sql)
                   /\ Sub(c_amt) \in Range(rendered.sql)
                   /\ Sub(NULL) \notin Range(rendered.sql)
            /\ (schema = ExampleSchema /\ rendered.report = "top_expense_types") =>
                   Sub(NULL) \in Range(rendered.sql)

C6_Witness ==
    /\ schema = ExampleSchema
    /\ rendered.status = "ok"
    /\ rendered.report = "dept_totals"

(***************************************************************************)
(* Ingest harness: one upload or one bucket event per step, on a warehouse *)
(* that may already hold the dataset and a table t                         *)
(***************************************************************************)
MaxRequests == 1

f_t_csv == <<"t", ".", "c", "s", "v">>

f_T_XLSX == <<"T", ".", "X", "L", "S", "X">>

f_t_xls == <<"t", ".", "x", "l", "s">>

f_t_json == <<"t", ".", "j", "s", "o", "n">>

f_t_parquet == <<"t", ".", "p", "a", "r", "q", "u", "e", "t">>

f_t_sql == <<"t", ".", "s", "q", "l">>

f_T_SQL == <<"T", ".", "S", "Q", "L">>

f_t_txt == <<"t", ".", "t", "x", "t">>

f_ab_csv == <<"a", "-", "b", ".", "c", "s", "v">>

f_ab_txt == <<"a", "-", "b", ".", "t", "x", "t">>

f_ab_sql == <<"a", "-", "b", ".", "s", "q", "l">>

f_a_b_csv == <<"a", " ", "b", ".", "c", "s", "v">>

f_drop_sql == <<"d", "r", "o", "p", ".", "s", "q", "l">>

f_dot_csv == <<".", "c", "s", "v">>

f_t == <<"t">>

Filenames ==
    {f_t_csv, f_T_XLSX, f_t_xls, f_t_json, f_t_parquet, f_t_sql, f_T_SQL, f_t_txt,
     f_ab_csv, f_ab_txt, f_ab_sql, f_a_b_csv, f_drop_sql, f_dot_csv, f_t, <<>>}

Rows(tag) == [rows |-> <<tag>>, schema |-> ExampleSchema]

\* what the uploaded file holds: rows under the example columns
File(filename) == [filename |-> filename, content |-> Rows("new")]

\* objects that reach the bucket without the web application
BucketObjects == {f_t_csv, f_t_json, f_t_sql, f_T_SQL, f_t_txt, UploadsDir \o f_t_csv}

Environments == {Production, Env(TRUE, FALSE, FALSE), Env(TRUE, TRUE, TRUE)}

t_name == <<"t">>

\* the table that process_upload loads the object t.csv into
t_csv_name == <<"t", "_", "c", "s", "v">>

InitIngest ==
    /\ dataset \in BOOLEAN
    /\ tables \in {<<>>} \cup {(TableId(name) :> Table(ExampleSchema, <<"old">>)) :
                                  name \in {t_name, t_csv_name}}
    /\ tables # <<>> => dataset
    /\ store = <<>>
    /\ queue = <<>>
    /\ tmp = {}
    /\ req = NoRequest
    /\ resp = NoResponse
    /\ calls = <<>>
    /\ nreq = 0
    /\ WorkerIdle
    /\ RaceIdle
    /\ AuxIdle
    /\ vName = <<>>
    /\ vResult = Pending
    /\ ResolverIdle

NewCtx(failAt) ==
    [dataset |-> dataset, tables |-> tables, store |-> store, queue |-> queue,
     tmp |-> tmp, calls |-> <<>>, failAt |-> failAt, exc |-> "none",
     detail |-> "none", validated |-> {}, ret |-> Table(<<>>, <<>>),
     created |-> <<>>]

\* the effects of a handler and its response become the state
Effects(c, request, response) ==
    /\ dataset' = c.dataset
    /\ tables' = c.tables
    /\ store' = c.store
    /\ queue' = c.queue
    /\ tmp' = c.tmp
    /\ calls' = c.calls
    /\ req' = request
    /\ resp' = response
    /\ nreq' = nreq + 1

Commit(c, request, response) ==
    /\ Effects(c, request, response)
    /\ UNCHANGED <<validatorVars, resolverVars, workerVars, raceVars, auxVars>>

UploadRequest(app, filename, env, failAt) ==
    [NoRequest EXCEPT !.handler = "index", !.app = app, !.filename = filename,
                      !.env = env, !.failAt = failAt]

\* POST / of main.py
Upload ==
    /\ nreq < MaxRequests
    /\ \E filename \in Filenames :
       \E failAt \in 0..Len(index(NewCtx(0), File(filename)).calls) :
          LET c == index(NewCtx(failAt), File(filename))
          IN  Commit(c, UploadRequest("main", filename, Production, failAt), Respond(c))

\* POST / of main_dev.py
UploadDev ==
    /\ nreq < MaxRequests
    /\ \E filename \in Filenames, env \in Environments :
       \E failAt \in 0..Len(index_dev(NewCtx(0), env, File(filename)).calls) :
          LET c == index_dev(NewCtx(failAt), env, File(filename))
          IN  Commit(c, UploadRequest("main_dev", filename, env, failAt), Respond(c))

\* POST / of main_simple.py
UploadSimple ==
    /\ nreq < MaxRequests
    /\ \E filename \in Filenames :
       \E failAt \in 0..Len(index_simple(NewCtx(0), File(filename)).calls) :
          LET c == index_simple(NewCtx(failAt), File(filename))
          IN  Commit(c, UploadRequest("main_simple", filename, Production, failAt),
                     Respond(c))

\* an object is finalized in the bucket and process_upload runs on its event
ProcessUpload ==
    /\ nreq < MaxRequests
    /\ \E name \in BucketObjects \cup DOMAIN store :
       \E failAt \in 0..1 :
          LET content == IF name \in DOMAIN store THEN store[name] ELSE Rows("new")
              event == [name |-> name, bucket |-> BUCKET_NAME, content |-> content]
              c0 == [NewCtx(failAt) EXCEPT !.store = (name :> content) @@ @]
              c == process_upload(c0, event)
          IN  Commit(c, [NoRequest EXCEPT !.handler = "process_upload",
                                          !.app = "process_upload",
                                          !.filename = name, !.failAt = failAt],
                     Outcome(c))

NextIngest ==
    \/ Upload
    \/ UploadDev
    \/ UploadSimple
    \/ ProcessUpload

SpecIngest == InitIngest /\ [][NextIngest]_vars

(***************************************************************************)
(* Claims on the upload route                                              *)
(***************************************************************************)
HasCall(cs, op) == \E i \in DOMAIN cs : cs[i].op = op

IsUpload(r) == r.handler = "index" /\ r.filename # <<>>

UploadExt(r) == Lower(splitext(r.filename)[2])

NameAccepted(r) == validate_table_name(derived_table_name(r.filename)).ok

AllLoadExts == {ext_csv, ext_xls, ext_xlsx, ext_json, ext_parquet}

LoadExts(app) == IF app = "main_simple" THEN AllLoadExts \ {ext_parquet} ELSE AllLoadExts

UnsupportedRejected(r) == r.kind = "rejected" /\ r.detail = "unsupported_format"

\* C8 as the specification states it: on an upload whose collaborators all
\* answer, the lower-cased extension alone decides between a load, a hand-off
\* to the queue and the unsupported-format rejection.
C8_ExtensionAloneDecides ==
    (IsUpload(req) /\ req.failAt = 0) =>
        /\ UploadExt(req) \in AllLoadExts => HasCall(calls, "load")
        /\ UploadExt(req) = ext_sql => HasCall(calls, "publish")
        /\ UploadExt(req) \notin AllLoadExts \cup {ext_sql} => UnsupportedRejected(resp)

\* C8, amended: an upload whose derived table name the validator rejects
\* fails with the invalid-identifier error whatever its extension; for the
\* others the lower-cased extension decides: a loaded extension (without
\* .parquet in main_simple) issues a load, .sql puts the file under
\* uploads/ and issues no load, anything else is rejected as unsupported;
\* and no load, publish or unsupported rejection happens for another
\* extension or an invalid name.
C8_ExtensionDecidesForAcceptedNames ==
    IsUpload(req) =>
        /\ HasCall(calls, "load") =>
               NameAccepted(req) /\ UploadExt(req) \in LoadExts(req.app)
        /\ HasCall(calls, "publish") => NameAccepted(req) /\ UploadExt(req) = ext_sql
        /\ UnsupportedRejected(resp) =>
               NameAccepted(req) /\ UploadExt(req) \notin LoadExts(req.app) \cup {ext_sql}
        /\ (req.failAt = 0 /\ ~NameAccepted(req)) =>
               /\ resp = [status |-> 400, kind |-> "ValueError",
                          detail |-> "invalid_identifier"]
               /\ \A i \in DOMAIN calls : calls[i].svc = "fs"
        /\ (req.failAt = 0 /\ NameAccepted(req)) =>
               /\ UploadExt(req) \in LoadExts(req.app) => HasCall(calls, "load")
               /\ UploadExt(req) = ext_sql =>
                      /\ \E i \in DOMAIN calls :
                             /\ calls[i].op = "put"
                             /\ calls[i].target = UploadsDir \o req.filename
                      /\ ~HasCall(calls, "load")
               /\ UploadExt(req) \notin LoadExts(req.app) \cup {ext_sql} =>
                      UnsupportedRejected(resp)

C8_Witness ==
    /\ IsUpload(req)
    /\ req.app = "main"
    /\ req.filename = f_T_XLSX
    /\ HasCall(calls, "load")
    /\ TableId(t_name) \in DOMAIN tables
    /\ tables[TableId(t_name)].data = <<"new">>

\* C9: a step that rejects an upload as an unsupported format has called
\* nothing but the local file system (no load, no store, no queue) and
\* leaves the store, the warehouse and the queue as they were.
C9_UnsupportedRejectionChangesNothing ==
    [][(nreq' = nreq + 1 /\ UnsupportedRejected(resp')) =>
           /\ UNCHANGED <<dataset, tables, store, queue>>
           /\ \A i \in DOMAIN calls' : calls'[i].svc = "fs"]_vars

C9_Witness ==
    /\ IsUpload(req)
    /\ req.filename = f_t_txt
    /\ req.app = "main"
    /\ UnsupportedRejected(resp)
    /\ ~dataset

IsSqlUpload(r) ==
    \/ IsUpload(r) /\ UploadExt(r) = ext_sql /\ NameAccepted(r)
    \/ r.handler = "process_upload" /\ EndsWith(r.filename, ext_sql)

PublishesForReal(r) ==
    \/ r.app \in {"main", "process_upload"}
    \/ r.app = "main_dev" /\ ~r.env.pubsub_emulator

u_name == <<"u">>

ab_name == <<"a", "-", "b">>

TableInputs == {t_name, u_name, ab_name, <<>>}

ReportInputs == {"dept_totals", "top_expense_types", "nope"}

LimitInputs == {<<>>, <<"1", "0">>, <<"a", "b", "c">>}

FullSchema == <<c_dept, c_amt, c_txn_date, c_category>>

u_csv == UploadsDir \o u_name \o ext_csv

InitReports ==
    /\ \/ dataset = FALSE /\ tables = <<>> /\ store = <<>>
       \/ dataset = TRUE /\ tables = <<>> /\ store = (u_csv :> Rows("old"))
       \/ /\ dataset = TRUE
          /\ \E cols \in {ExampleSchema, FullSchema, ExampleUnresolvable} :
                tables = (TableId(t_name) :> Table(cols, <<"old">>))
          /\ store = <<>>
    /\ queue = <<>>
    /\ tmp = {}
    /\ req = NoRequest
    /\ resp = NoResponse
    /\ calls = <<>>
    /\ nreq = 0
    /\ WorkerIdle
    /\ RaceIdle
    /\ AuxIdle
    /\ vName = <<>>
    /\ vResult = Pending
    /\ ResolverIdle

ReportRequest(handler, report, table, limit, failAt) ==
    [NoRequest EXCEPT !.handler = handler, !.app = "main", !.report = report,
                      !.table = table, !.limit = limit, !.failAt = failAt]

\* POST /run_report
RunReport ==
    /\ nreq < MaxRequests
    /\ \E report \in ReportInputs, table \in TableInputs, limit \in LimitInputs :
       LET data == [report |-> report, table |-> table, limit |-> limit]
       IN  \E failAt \in 0..Len(run_report(NewCtx(0), data).calls) :
              LET c == run_report(NewCtx(failAt), data)
              IN  Commit(c, ReportRequest("run_report", report, table, limit, failAt),
                         Respond500(c))

\* GET /download_report
DownloadReport ==
    /\ nreq < MaxRequests
    /\ \E report \in ReportInputs, table \in TableInputs :
       LET args == [report |-> report, table |-> table]
       IN  \E failAt \in 0..Len(download_report(NewCtx(0), args).calls) :
              LET c == download_report(NewCtx(failAt), args)
              IN  Commit(c, ReportRequest("download_report", report, table, <<>>, failAt),
                         Respond500(c))

PublishOf(table) ==
    LET data == [table |-> table]
    IN  \E failAt \in 0..Len(publish_looker_views(NewCtx(0), data).calls) :
           LET c == publish_looker_views(NewCtx(failAt), data)
           IN  Commit(c, ReportRequest("publish_looker_views", "none", table, <<>>,
                                       failAt),
                      RespondPublish(c))

\* POST /publish_looker_views
PublishLookerViews ==
    /\ nreq < MaxRequests
    /\ \E table \in TableInputs : PublishOf(table)

\* GET /download_bq
DownloadBq ==
    /\ nreq < MaxRequests
    /\ \E table \in TableInputs :
       LET args == [table |-> table]
       IN  \E failAt \in 0..Len(download_bq(NewCtx(0), args).calls) :
              LET c == download_bq(NewCtx(failAt), args)
              IN  Commit(c, ReportRequest("download_bq", "none", table, <<>>, failAt),
                         Respond(c))

\* the HTTP function run_analysis
RunAnalysisFunction ==
    /\ nreq < MaxRequests
    /\ \E table \in TableInputs :
       LET args == [table |-> table]
       IN  \E failAt \in 0..Len(fn_run_analysis(NewCtx(0), args).calls) :
              LET c == fn_run_analysis(NewCtx(failAt), args)
              IN  Commit(c, [ReportRequest("run_analysis", "none", table, <<>>, failAt)
                                EXCEPT !.app = "functions"],
                         Respond500(c))

NextReports ==
    \/ RunReport
    \/ DownloadReport
    \/ PublishLookerViews
    \/ DownloadBq
    \/ RunAnalysisFunction

SpecReports == InitReports /\ [][NextReports]_vars

(***************************************************************************)
(* Claims on the report, publish and download routes                       *)
(***************************************************************************)
\* C2: every call of the warehouse whose target or SQL text holds a table
\* name supplied by the caller is made with a name that the validator has
\* accepted earlier in the same request.
C2_InterpolatedNamesAreValidated ==
    \A i \in DOMAIN calls : calls[i].name # NoName => calls[i].checked

NameRejected(r) == r.table # <<>> /\ ~validate_table_name(r.table).ok

\* C3: publish, run_report and download_report, given a table name that the
\* validator rejects, fail with the invalid-identifier error and have made
\* no warehouse call.
C3_RejectedNameReachesNoWarehouse ==
    (/\ req.handler \in {"publish_looker_views", "run_report", "download_report"}
     /\ NameRejected(req)
     /\ req.report \in DOMAIN REPORTS \cup {"none"}
     /\ ~(req.limit # <<>> /\ ~IsIntLiteral(req.limit))) =>
        /\ resp.detail = "invalid_identifier"
        /\ \A i \in DOMAIN calls : calls[i].svc # "bq"

UnknownReportError(r, rsp) ==
    \/ r.handler = "run_report" /\ rsp.kind = "rejected" /\ rsp.detail = "unknown_report"
    \/ /\ r.handler = "download_report"
       /\ rsp.kind = "rejected"
       /\ rsp.detail = "missing_or_invalid_parameters"

\* C7: run_report and download_report answer with the unknown-report error
\* exactly for the report ids that are not in the catalog, and then no
\* column was resolved and no query was made.
C7_UnknownReportExactly ==
    req.handler \in {"run_report", "download_report"} =>
        /\ UnknownReportError(req, resp) <=> req.report \notin DOMAIN REPORTS
        /\ UnknownReportError(req, resp) => calls = <<>>

(***************************************************************************)
(* Claims on the hand-off of .sql uploads                                  *)
(***************************************************************************)
\* C11: a .sql upload whose store write and publish succeed, and whose other
\* collaborators all answer, is answered with success, whether or not the
\* warehouse holds a table of the derived name.
C11_ForwardedSqlReturnsSuccess ==
    [][(/\ nreq' = nreq + 1
        /\ IsUpload(req')
        /\ UploadExt(req') = ext_sql
        /\ req'.failAt = 0
        /\ UploadsDir \o req'.filename \in DOMAIN store'
        /\ queue' = Append(queue, ImportMessage(req'.filename))) =>
           resp'.kind = "ok"]_vars

\* C12: a step that loads an upload with success leaves the table it loads
\* into with exactly the rows of that upload: rows that the table held
\* before do not remain.
C12_LoadReplacesRows ==
    [][(nreq' = nreq + 1 /\ resp'.kind = "ok") =>
           \A i \in DOMAIN calls' :
               (calls'[i].svc = "bq" /\ calls'[i].op = "load") =>
                   /\ calls'[i].target \in DOMAIN tables'
                   /\ tables'[calls'[i].target].data =
                          IF req'.handler = "process_upload"
                          THEN store'[req'.filename].rows
                          ELSE File(req'.filename).content.rows]_vars

(***************************************************************************)
(* Worker harness: the topic holds messages of the router and of other     *)
(* sources; a delivery runs import_sql, a return acknowledges the message, *)
(* an exception leaves it on the topic for redelivery                      *)
(***************************************************************************)
MaxQueue == 2

MaxDeliveries == 2

TopicMessages ==
    {ImportMessage(f_t_sql), ImportMessage(f_T_SQL), ImportMessage(f_t_csv),
     ImportMessage(<<>>), [bucket |-> BUCKET_NAME]}

InitWorker ==
    /\ queue \in UNION {[1..n -> TopicMessages] : n \in 0..MaxQueue}
    /\ dataset = FALSE
    /\ tables = <<>>
    /\ store = <<>>
    /\ tmp = {}
    /\ req = NoRequest
    /\ resp = NoResponse
    /\ calls = <<>>
    /\ nreq = 0
    /\ WorkerIdle
    /\ RaceIdle
    /\ AuxIdle
    /\ vName = <<>>
    /\ vResult = Pending
    /\ ResolverIdle

Without(q, i) == SubSeq(q, 1, i - 1) \o SubSeq(q, i + 1, Len(q))

\* mutant of Deliver: the worker remembers the dumps it has restored (a
\* module-level collection) and skips a message whose dump it has seen
DeliverRemembering(i, outcome) ==
    /\ nreq < MaxDeliveries
    /\ LET r == import_sql(queue[i], outcome)
           seen == \E k \in DOMAIN r.restored : r.restored[k] \in Range(restores)
           done == IF seen THEN <<>> ELSE r.restored
       IN  /\ restores' = restores \o done
           /\ wlast' = [message |-> queue[i],
                        outcome |-> IF done = <<>> THEN "none" ELSE outcome,
                        result |-> IF seen THEN "returned" ELSE r.result,
                        exc |-> IF seen THEN "none" ELSE r.exc, restored |-> done]
           /\ queue' = IF seen \/ r.result = "returned" THEN Without(queue, i) ELSE queue
    /\ nreq' = nreq + 1
    /\ UNCHANGED <<validatorVars, resolverVars, raceVars, auxVars, dataset, tables, store, tmp,
                   req, resp, calls>>

\* the topic delivers its i-th message to the worker
Deliver(i, outcome) ==
    /\ nreq < MaxDeliveries
    /\ LET r == import_sql(queue[i], outcome)
       IN  /\ restores' = restores \o r.restored
           /\ wlast' = [message |-> queue[i],
                        outcome |-> IF r.restored = <<>> THEN "none" ELSE outcome,
                        result |-> r.result, exc |-> r.exc, restored |-> r.restored]
           /\ queue' = IF r.result = "returned" THEN Without(queue, i) ELSE queue
    /\ nreq' = nreq + 1
    /\ UNCHANGED <<validatorVars, resolverVars, raceVars, auxVars, dataset, tables, store, tmp,
                   req, resp, calls>>

NextWorker == \E i \in DOMAIN queue, outcome \in RestoreOutcomes : Deliver(i, outcome)

SpecWorker == InitWorker /\ [][NextWorker]_vars

HasSqlSuffix(message) == "name" \in DOMAIN message /\ EndsWith(message.name, ext_sql)

\* C13: a delivery of a message whose artifact name does not end in .sql
\* (a message without a name included) returns normally and does not invoke
\* the restore.
C13_NonSqlMessageIgnored ==
    [][(nreq' = nreq + 1 /\ ~HasSqlSuffix(wlast'.message)) =>
           wlast'.result = "returned" /\ restores' = restores]_vars

\* C14: a delivery whose restore fails returns normally, so the message is
\* acknowledged and leaves the topic.
C14_FailedRestoreIsHandled ==
    [][(nreq' = nreq + 1 /\ wlast'.outcome \notin {"none", "ok"}) =>
           /\ wlast'.result = "returned"
           /\ Len(queue') = Len(queue) - 1]_vars

(***************************************************************************)
(* Claims on publishing                                                    *)
(***************************************************************************)
IsPublish(r) == r.handler = "publish_looker_views"

\* the id of the view of report r for table t, written out
ExpectedViewId(t, r) ==
    PROJECT_ID \o <<".">> \o BIGQUERY_DATASET \o <<".">> \o t \o <<"_", "_">>
        \o ReportIdText[r] \o <<"_", "v">>

\* C15: a publish that succeeds returns one entry for each of the five
\* reports of the catalog and for no other key, the entry of report r for
\* table t is the view t__r_v of the dataset, and that view exists.
C15_PublishReturnsOneViewPerReport ==
    (IsPublish(req) /\ resp.kind = "ok") =>
        /\ DOMAIN resp.views = DOMAIN REPORTS
        /\ Cardinality(DOMAIN resp.views) = 5
        /\ \A r \in DOMAIN resp.views :
               /\ resp.views[r] = ExpectedViewId(req.table, r)
               /\ resp.views[r] \in DOMAIN tables
               /\ tables[resp.views[r]].kind = "VIEW"
        /\ req.table = t_name =>
               resp.views["dept_totals"] =
                   <<"p", "r", "o", "j", ".", "d", "s", ".", "t", "_", "_",
                     "d", "e", "p", "t", "_", "t", "o", "t", "a", "l", "s", "_", "v">>

C15_Witness ==
    /\ IsPublish(req)
    /\ req.table = t_name
    /\ resp.kind = "ok"
    /\ Cardinality(DOMAIN resp.views) = 5

(***************************************************************************)
(* Publish harness: publish requests one after the other                   *)
(***************************************************************************)
MaxPublishes == 2

\* POST /publish_looker_views, again and again
Republish ==
    /\ nreq < MaxPublishes
    /\ \E table \in {t_name, ab_name} : PublishOf(table)

NextPublish == Republish

SpecPublish == InitReports /\ [][NextPublish]_vars

\* C16: a publish that succeeds right after a publish of the same table
\* that succeeded returns the same mapping and leaves the warehouse, its
\* views and their definitions included, as the first one left it.
C16_PublishTwiceIsPublishOnce ==
    [][(/\ nreq' = nreq + 1
        /\ IsPublish(req) /\ resp.kind = "ok"
        /\ IsPublish(req') /\ resp'.kind = "ok"
        /\ req'.table = req.table) =>
           /\ resp'.views = resp.views
           /\ tables' = tables
           /\ dataset' = dataset]_vars

C16_Witness ==
    /\ nreq = 2
    /\ IsPublish(req)
    /\ resp.kind = "ok"
    /\ HasCall(calls, "update_table")
    /\ ~HasCall(calls, "create_table")
    /\ Cardinality(DOMAIN tables) = 6

\* C18: a publish that fails returns no mapping and leaves the warehouse
\* as it was: no view was created or replaced by the failed call.
C18_FailedPublishLeavesNoViews ==
    [][(nreq' = nreq + 1 /\ IsPublish(req') /\ resp'.kind = "Error") =>
           /\ resp'.views = <<>>
           /\ tables' = tables]_vars

(***************************************************************************)
(* Publish race: two publish calls for the same table, past the column     *)
(* detection, interleaved at the warehouse calls of _create_or_replace_view *)
(* (get_table, then update_table or create_table) of each report           *)
(***************************************************************************)
Callers == {"first", "second"}

NoView == [exists |-> FALSE, etag |-> 0, writer |-> "none"]

\* a call at the get_table of its k-th report
AtFetch(k) == [k |-> k, phase |-> "fetch", found |-> FALSE, etag |-> 0, exc |-> "none"]

InitRace ==
    /\ \E before \in {NoView, [exists |-> TRUE, etag |-> 1, writer |-> "earlier"]} :
          rviews = [rid \in DOMAIN REPORTS |-> before]
    /\ rprocs = [p \in Callers |-> AtFetch(1)]
    /\ dataset = TRUE
    /\ tables = <<>>
    /\ store = <<>>
    /\ queue = <<>>
    /\ tmp = {}
    /\ req = NoRequest
    /\ resp = NoResponse
    /\ calls = <<>>
    /\ nreq = 0
    /\ restores = <<>>
    /\ wlast = NoDelivery
    /\ AuxIdle
    /\ vName = <<>>
    /\ vResult = Pending
    /\ ResolverIdle

RaceFrame ==
    UNCHANGED <<validatorVars, resolverVars, workerVars, auxVars, dataset, tables, store, queue,
                tmp, req, resp, calls, nreq>>

\* the loop goes on with the next report, or the call returns its mapping
Advance(p) ==
    IF rprocs[p].k = Len(ReportIds)
    THEN [rprocs[p] EXCEPT !.phase = "done"]
    ELSE AtFetch(rprocs[p].k + 1)

\* existing = bq_client.get_table(view_id): the view with its etag, or NotFound
Fetch(p) ==
    /\ rprocs[p].phase = "fetch"
    /\ LET view == rviews[ReportIds[rprocs[p].k]]
       IN  rprocs' = [rprocs EXCEPT ![p] = [@ EXCEPT !.phase = "write",
                                                      !.found = view.exists,
                                                      !.etag = view.etag]]
    /\ UNCHANGED rviews
    /\ RaceFrame

\* bq_client.update_table(existing, ["view_query"]): the request carries the
\* etag of existing and the warehouse refuses it when the view has changed
UpdateTable(p) ==
    /\ rprocs[p].phase = "write"
    /\ rprocs[p].found
    /\ LET rid == ReportIds[rprocs[p].k]
       IN  IF rviews[rid].etag = rprocs[p].etag
           THEN /\ rviews' = [rviews EXCEPT ![rid] = [exists |-> TRUE,
                                                        etag |-> @.etag + 1,
                                                        writer |-> p]]
                /\ rprocs' = [rprocs EXCEPT ![p] = Advance(p)]
           ELSE /\ rprocs' = [rprocs EXCEPT ![p] = [@ EXCEPT !.phase = "failed",
                                                              !.exc = "PreconditionFailed"]]
                /\ UNCHANGED rviews
    /\ RaceFrame

\* except NotFound: bq_client.create_table(table), refused when the view exists
CreateTable(p) ==
    /\ rprocs[p].phase = "write"
    /\ ~rprocs[p].found
    /\ LET rid == ReportIds[rprocs[p].k]
       IN  IF ~rviews[rid].exists
           THEN /\ rviews' = [rviews EXCEPT ![rid] = [exists |-> TRUE,
                                                        etag |-> @.etag + 1,
                                                        writer |-> p]]
                /\ rprocs' = [rprocs EXCEPT ![p] = Advance(p)]
           ELSE /\ rprocs' = [rprocs EXCEPT ![p] = [@ EXCEPT !.phase = "failed",
                                                              !.exc = "Conflict"]]
                /\ UNCHANGED rviews
    /\ RaceFrame

NextRace ==
    \/ \E p \in Callers : Fetch(p)
    \/ \E p \in Callers : UpdateTable(p)
    \/ \E p \in Callers : CreateTable(p)

SpecRace == InitRace /\ [][NextRace]_vars

\* C17: of two concurrent publish calls for one table neither fails, and
\* when both have returned every view holds the definition written by one
\* of the two.
C17_ConcurrentPublishesBothSucceed ==
    /\ \A p \in DOMAIN rprocs : rprocs[p].phase # "failed"
    /\ (\A p \in DOMAIN rprocs : rprocs[p].phase = "done") =>
           \A rid \in DOMAIN rviews : rviews[rid].exists /\ rviews[rid].writer \in Callers

(***************************************************************************)
(* Claims on how failures reach the caller                                 *)
(***************************************************************************)
IsValidationFailure(rsp) == rsp.detail \in {"invalid_identifier", "no_column"}

\* C19: on run_report, download_report, publish_looker_views and download_bq
\* a request that ends on an invalid table identifier or on a required role
\* without a column is answered as a client error carrying the detail, not
\* as an internal error.
C19_ValidationFailureIsClientError ==
    (/\ req.handler \in {"run_report", "download_report", "publish_looker_views",
                         "download_bq"}
     /\ IsValidationFailure(resp)) =>
        resp.status = 400

(***************************************************************************)
(* Claims on the persistence of uploads                                    *)
(***************************************************************************)
IsHandOff(call) ==
    \/ call.op = "load" /\ call.svc \in {"bq", "mock"}
    \/ call.op = "publish" /\ call.svc \in {"pubsub", "mock"}

\* the store write of object path stands before position i of the calls
PutBefore(cs, i, path) ==
    \E j \in 1..(i - 1) : cs[j].svc = "gcs" /\ cs[j].op = "put" /\ cs[j].target = path

\* C20 as the specification states it: whenever an upload issues a load or
\* a publish, the uploaded file has been written to the store under
\* uploads/<its file name> before, and the object is in the store when the
\* request ends, also when the load failed.
C20_StoredUnderUploadedNameFirst ==
    IsUpload(req) =>
        \A i \in DOMAIN calls :
            IsHandOff(calls[i]) =>
                /\ PutBefore(calls, i, UploadsDir \o req.filename)
                /\ UploadsDir \o req.filename \in DOMAIN store

\* the name of the object that the route stores: an Excel upload is stored
\* as the CSV it was converted to, named after the table
StoredName(r) ==
    IF UploadExt(r) \in {ext_xls, ext_xlsx}
    THEN derived_table_name(r.filename) \o ext_csv
    ELSE r.filename

\* C20, amended: in main.py and main_dev.py, whenever an upload issues a
\* load or a publish, the artifact (for an Excel upload the converted CSV,
\* named <table>.csv) has been written to the store under uploads/ before,
\* and the object, holding the uploaded content, is in the store when the
\* request ends, also when the load failed.
C20_StoredArtifactFirst ==
    (IsUpload(req) /\ req.app \in {"main", "main_dev"}) =>
        \A i \in DOMAIN calls :
            IsHandOff(calls[i]) =>
                /\ PutBefore(calls, i, UploadsDir \o StoredName(req))
                /\ UploadsDir \o StoredName(req) \in DOMAIN store
                /\ store[UploadsDir \o StoredName(req)] = File(req.filename).content

C20_Witness ==
    /\ IsUpload(req)
    /\ req.app = "main"
    /\ req.filename = f_t_csv
    /\ HasCall(calls, "load")
    /\ resp = [status |-> 500, kind |-> "Error", detail |-> "load"]
    /\ UploadsDir \o f_t_csv \in DOMAIN store

(***************************************************************************)
(* Hand-off harness: .sql uploads through index of main.py and deliveries  *)
(* of the topic to import_sql.  For each upload that reached the store,    *)
(* lifecycle records the object written, the states passed and the dump    *)
(* locations handed to the restore; qids ties a message to its upload.     *)
(***************************************************************************)
MaxUploads == 2

MaxAttempts == 2

SqlUploads == {f_t_sql, f_T_SQL}

InitHandOff ==
    /\ dataset = TRUE
    /\ tables \in {<<>>, (TableId(t_name) :> Table(ExampleSchema, <<"old">>))}
    /\ store = <<>>
    /\ queue = <<>>
    /\ tmp = {}
    /\ req = NoRequest
    /\ resp = NoResponse
    /\ calls = <<>>
    /\ nreq = 0
    /\ WorkerIdle
    /\ RaceIdle
    /\ AuxIdle
    /\ vName = <<>>
    /\ vResult = Pending
    /\ ResolverIdle

\* the request wrote the object: a put of that path that did not fail
PutDone(c, path) ==
    \E i \in DOMAIN c.calls :
        /\ c.calls[i].svc = "gcs" /\ c.calls[i].op = "put" /\ c.calls[i].target = path
        /\ i # c.failAt

\* POST / of main.py with a .sql file
SqlUpload ==
    /\ nreq < MaxUploads
    /\ \E filename \in SqlUploads :
       \E failAt \in 0..Len(index(NewCtx(0), File(filename)).calls) :
          LET c == index(NewCtx(failAt), File(filename))
              object == UploadsDir \o filename
              sent == Len(c.queue) = Len(queue) + 1
              entry == [name |-> filename, object |-> object, dumps |-> <<>>,
                        states |-> IF sent THEN <<"UPLOADED", "QUEUED">>
                                   ELSE <<"UPLOADED">>]
          IN  /\ Effects(c, UploadRequest("main", filename, Production, failAt), Respond(c))
              /\ lifecycle' = IF PutDone(c, object) THEN Append(lifecycle, entry)
                              ELSE lifecycle
              /\ qids' = IF sent THEN Append(qids, Len(lifecycle) + 1) ELSE qids
    /\ UNCHANGED <<validatorVars, resolverVars, workerVars, raceVars, uploadRaceVars,
                   limiterVars>>

\* the topic delivers its i-th message to import_sql: a return acknowledges
\* the message, an exception leaves it on the topic
Handle(i, outcome) ==
    /\ LET r == import_sql(queue[i], outcome)
           k == qids[i]
           acked == r.result = "returned"
       IN  /\ r.result = "raised" => Len(restores) < MaxAttempts
           /\ restores' = restores \o r.restored
           /\ wlast' = [message |-> queue[i],
                        outcome |-> IF r.restored = <<>> THEN "none" ELSE outcome,
                        result |-> r.result, exc |-> r.exc, restored |-> r.restored]
           /\ queue' = IF acked THEN Without(queue, i) ELSE queue
           /\ qids' = IF acked THEN Without(qids, i) ELSE qids
           /\ lifecycle' =
                  IF r.restored = <<>> THEN lifecycle
                  ELSE [lifecycle EXCEPT
                           ![k].dumps = Append(@, r.restored[1].uri),
                           ![k].states = @ \o <<"RESTORING",
                                                IF outcome = "ok" THEN "RESTORED"
                                                ELSE "FAILED">>]
    /\ UNCHANGED <<validatorVars, resolverVars, raceVars, uploadRaceVars, limiterVars,
                   dataset, tables, store, tmp, req, resp, calls, nreq>>

\* the topic delivers while it holds a message
Delivery == \E i \in DOMAIN queue, outcome \in RestoreOutcomes : Handle(i, outcome)

NextHandOff ==
    \/ SqlUpload
    \/ Delivery

SpecHandOff == InitHandOff /\ [][NextHandOff]_vars

\* the location of an object of a bucket, written out
GsLocation(bucket, path) == <<"g", "s", ":", "/", "/">> \o bucket \o <<"/">> \o path

\* C21: every dump location that the worker hands to the restore for a
\* .sql upload is the location of the object under which the router stored
\* that upload.
C21_RestoresTheStoredObject ==
    \A k \in DOMAIN lifecycle :
        \A j \in DOMAIN lifecycle[k].dumps :
            /\ lifecycle[k].object \in DOMAIN store
            /\ lifecycle[k].dumps[j] = GsLocation(BUCKET_NAME, lifecycle[k].object)

\* the ways through UPLOADED, QUEUED, RESTORING, then RESTORED or FAILED
LifecyclePaths ==
    {<<"UPLOADED">>, <<"UPLOADED", "QUEUED">>,
     <<"UPLOADED", "QUEUED", "RESTORING", "RESTORED">>,
     <<"UPLOADED", "QUEUED", "RESTORING", "FAILED">>}

\* C22: the states of every .sql upload follow UPLOADED, QUEUED, RESTORING,
\* then RESTORED or FAILED, each at most once: the restore is invoked only
\* for an upload that was stored and enqueued, and after FAILED (or
\* RESTORED) no further restore is attempted for that upload.
C22_LifecycleIsLinear ==
    \A k \in DOMAIN lifecycle : lifecycle[k].states \in LifecyclePaths

\* fair delivery: a message on the topic is eventually delivered
SpecHandOffFair == SpecHandOff /\ WF_vars(Delivery)

StateOf(k) == lifecycle[k].states[Len(lifecycle[k].states)]

\* C23: under fair delivery every upload that the router has enqueued
\* (QUEUED) is eventually restored or has failed in the restore: the worker
\* does not drop a message of the router at its suffix check.
C23_QueuedUploadIsRestored ==
    \A k \in 1..MaxUploads :
        (k \in DOMAIN lifecycle /\ StateOf(k) = "QUEUED")
            ~> (k \in DOMAIN lifecycle /\ StateOf(k) \in {"RESTORED", "FAILED"})

\* the restore that a message asks for, written out
ExpectedImport(message) ==
    [instance |-> <<"d", "b">>,
     uri |-> GsLocation(message.bucket, message.name),
     database |-> <<"d", "a", "t", "a">>]

StepOf(call) ==
    CASE call.svc = "gcs" /\ call.op = "put" /\ SubSeq(call.target, 1, Len(UploadsDir)) = UploadsDir -> 1
      [] call.op \in {"load", "publish"} -> 2
      [] call.op \in {"get_table", "query", "query_into"} -> 3
      [] call.svc = "gcs" /\ call.op = "put" -> 3
      [] call.svc = "fs" /\ call.op = "write" /\ EndsWith(call.target, ResultsCsv) -> 3
      [] OTHER -> 0

\* C25: in an upload request of main.py the calls of the steps come in the
\* order persist, load or forward, analysis, and the request makes no
\* collaborator call after one has failed (the lookup of the dataset, whose
\* failure makes ensure_dataset_exists create it, is no step of its own).
C25_StepsInOrderAndAbortOnFailure ==
    (IsUpload(req) /\ req.app = "main") =>
        /\ \A i, j \in DOMAIN calls :
               (i < j /\ StepOf(calls[i]) > 0 /\ StepOf(calls[j]) > 0) =>
                   StepOf(calls[i]) <= StepOf(calls[j])
        /\ (req.failAt \in DOMAIN calls /\ calls[req.failAt].op # "get_dataset") =>
               Len(calls) = req.failAt

(***************************************************************************)
(* Upload race: two upload requests of main.py whose files derive the      *)
(* table name t, each running index step by step on the /tmp directory,    *)
(* the bucket and the warehouse they share.  A step fails only when the    *)
(* local file it reads is not there.                                       *)
(***************************************************************************)
RaceFiles == {f_t_csv, f_t_json, f_T_XLSX}

IsExcel(file) == Lower(splitext(file)[2]) \in {ext_xlsx, ext_xls}

\* file_path = f"/tmp/{uploaded_file.filename}"
FilePath(file) == TmpDir \o file

\* csv_path = f"/tmp/{table_name}.csv"
CsvPath(file) == TmpDir \o derived_table_name(file) \o ext_csv

\* the local file and the object name that load_to_bigquery is called with
LoadPath(file) == IF IsExcel(file) THEN CsvPath(file) ELSE FilePath(file)

LoadName(file) == IF IsExcel(file) THEN derived_table_name(file) \o ext_csv ELSE file

InitUploadRace ==
    /\ \E files \in [Callers -> RaceFiles] :
          uprocs = [p \in Callers |-> [file |-> files[p], content |-> Rows(p),
                                       pc |-> "save", exc |-> "none"]]
    /\ tmpfiles = <<>>
    /\ dataset = TRUE
    /\ tables = <<>>
    /\ store = <<>>
    /\ queue = <<>>
    /\ tmp = {}
    /\ req = NoRequest
    /\ resp = NoResponse
    /\ calls = <<>>
    /\ nreq = 0
    /\ WorkerIdle
    /\ RaceIdle
    /\ HandOffIdle
    /\ LimiterIdle
    /\ vName = <<>>
    /\ vResult = Pending
    /\ ResolverIdle

UploadRaceFrame ==
    UNCHANGED <<validatorVars, resolverVars, workerVars, raceVars, handoffVars, limiterVars,
                dataset, queue, tmp, req, resp, calls, nreq>>

Goto(p, pc) == [uprocs EXCEPT ![p].pc = pc]

\* an exception leaves the try block: the except clause answers 500 and the
\* finally block runs
Fail(p, exc) == [uprocs EXCEPT ![p].pc = "cleanup", ![p].exc = exc]

\* uploaded_file.save(file_path)
Save(p) ==
    /\ uprocs[p].pc = "save"
    /\ tmpfiles' = (FilePath(uprocs[p].file) :> uprocs[p].content) @@ tmpfiles
    /\ uprocs' = Goto(p, IF IsExcel(uprocs[p].file) THEN "convert" ELSE "put")
    /\ UNCHANGED <<tables, store>>
    /\ UploadRaceFrame

\* pd.read_excel(file_path) and df.to_csv(csv_path)
Convert(p) ==
    /\ uprocs[p].pc = "convert"
    /\ IF FilePath(uprocs[p].file) \in DOMAIN tmpfiles
       THEN /\ tmpfiles' = (CsvPath(uprocs[p].file) :> tmpfiles[FilePath(uprocs[p].file)])
                              @@ tmpfiles
            /\ uprocs' = Goto(p, "put")
       ELSE /\ uprocs' = Fail(p, "FileNotFoundError")
            /\ UNCHANGED tmpfiles
    /\ UNCHANGED <<tables, store>>
    /\ UploadRaceFrame

\* blob.upload_from_filename(tmp_path) of load_to_bigquery
Put(p) ==
    /\ uprocs[p].pc = "put"
    /\ IF LoadPath(uprocs[p].file) \in DOMAIN tmpfiles
       THEN /\ store' = (UploadsDir \o LoadName(uprocs[p].file) :>
                             tmpfiles[LoadPath(uprocs[p].file)]) @@ store
            /\ uprocs' = Goto(p, "load")
       ELSE /\ uprocs' = Fail(p, "FileNotFoundError")
            /\ UNCHANGED store
    /\ UNCHANGED <<tables, tmpfiles>>
    /\ UploadRaceFrame

\* open(tmp_path), load_table_from_file with WRITE_TRUNCATE, load_job.result()
Load(p) ==
    /\ uprocs[p].pc = "load"
    /\ IF LoadPath(uprocs[p].file) \in DOMAIN tmpfiles
       THEN LET content == tmpfiles[LoadPath(uprocs[p].file)]
            IN  /\ tables' = (TableId(derived_table_name(uprocs[p].file)) :>
                                  Table(content.schema, content.rows)) @@ tables
                /\ uprocs' = Goto(p, "analyse")
       ELSE /\ uprocs' = Fail(p, "FileNotFoundError")
            /\ UNCHANGED tables
    /\ UNCHANGED <<store, tmpfiles>>
    /\ UploadRaceFrame

\* run_analysis(table_name): the table is read, its rows go to the results
\* object and to the _analysis table
Analyse(p) ==
    /\ uprocs[p].pc = "analyse"
    /\ LET table_name == derived_table_name(uprocs[p].file)
           table == tables[TableId(table_name)]
       IN  /\ store' = (AnalysisDir \o table_name \o ResultsCsv :>
                            [rows |-> <<"results">>, schema |-> <<>>]) @@ store
           /\ tables' = (TableId(table_name \o AnalysisSuffix) :>
                             Table(table.schema, table.data)) @@ tables
    /\ uprocs' = Goto(p, "cleanup")
    /\ UNCHANGED tmpfiles
    /\ UploadRaceFrame

\* the finally block: file_path and /tmp/<table>.csv are removed when there
Cleanup(p) ==
    /\ uprocs[p].pc = "cleanup"
    /\ LET gone == {FilePath(uprocs[p].file), CsvPath(uprocs[p].file)}
       IN  tmpfiles' = [path \in DOMAIN tmpfiles \ gone |-> tmpfiles[path]]
    /\ uprocs' = Goto(p, IF uprocs[p].exc = "none" THEN "done" ELSE "failed")
    /\ UNCHANGED <<tables, store>>
    /\ UploadRaceFrame

NextUploadRace ==
    \/ \E p \in Callers : Save(p)
    \/ \E p \in Callers : Convert(p)
    \/ \E p \in Callers : Put(p)
    \/ \E p \in Callers : Load(p)
    \/ \E p \in Callers : Analyse(p)
    \/ \E p \in Callers : Cleanup(p)

SpecUploadRace == InitUploadRace /\ [][NextUploadRace]_vars

\* C26: of two concurrent uploads with the same derived table name neither
\* fails, and when both have returned the table holds exactly the rows of
\* one of the two uploaded files.
C26_ConcurrentUploadsBothComplete ==
    /\ \A p \in DOMAIN uprocs : uprocs[p].exc = "none"
    /\ (\A p \in DOMAIN uprocs : uprocs[p].pc = "done") =>
           \E p \in DOMAIN uprocs :
               /\ TableId(derived_table_name(uprocs[p].file)) \in DOMAIN tables
               /\ tables[TableId(derived_table_name(uprocs[p].file))].data =
                      uprocs[p].content.rows

(***************************************************************************)
(* Claims on the temporary files of an upload request                      *)
(***************************************************************************)
\* C27: when an upload request of any of the three applications has ended,
\* with success, a rejection or a failure at any call, the local copy of
\* the uploaded file and the CSV converted from an Excel upload are gone:
\* of the local files the request wrote only the results file of the
\* analysis is left.
C27_TempFilesRemoved ==
    req.handler = "index" =>
        /\ TmpDir \o req.filename \notin tmp
        /\ TmpDir \o derived_table_name(req.filename) \o ext_csv \notin tmp
        /\ \A i \in DOMAIN calls :
               (calls[i].svc = "fs" /\ calls[i].op = "write"
                    /\ ~EndsWith(calls[i].target, ResultsCsv)) =>
                   calls[i].target \notin tmp

\* an Excel upload was converted and its load failed
C27_Witness ==
    /\ IsUpload(req)
    /\ req.app = "main"
    /\ req.filename = f_T_XLSX
    /\ resp = [status |-> 500, kind |-> "Error", detail |-> "load"]
    /\ \E i \in DOMAIN calls :
           /\ calls[i].svc = "fs" /\ calls[i].op = "write"
           /\ calls[i].target = TmpDir \o t_name \o ext_csv
           /\ i # req.failAt
    /\ tmp = {}

(***************************************************************************)
(* Rate limiter of the upload route: rate_limit(max_requests=5,            *)
(* window_seconds=60) around index, run by the threads of the server on    *)
(* the module-level dictionary rate_limit_storage                          *)
(***************************************************************************)
max_requests == 5

window_seconds == 60

TickSeconds == 30

MaxClock == 60

MaxCalls == 6

Clients == {"10.0.0.1", "10.0.0.2"}

IdleThread == [client |-> "none", now |-> 0, pc |-> "idle", last |-> "none"]

InitLimiter ==
    /\ rate_limit_storage = [client \in Clients |-> <<>>]
    /\ clock = 0
    /\ lprocs = [p \in Callers |-> IdleThread]
    /\ admitted = [client \in Clients |-> <<>>]
    /\ dataset = FALSE
    /\ tables = <<>>
    /\ store = <<>>
    /\ queue = <<>>
    /\ tmp = {}
    /\ req = NoRequest
    /\ resp = NoResponse
    /\ calls = <<>>
    /\ nreq = 0
    /\ WorkerIdle
    /\ RaceIdle
    /\ HandOffIdle
    /\ UploadRaceIdle
    /\ vName = <<>>
    /\ vResult = Pending
    /\ ResolverIdle

LimiterFrame ==
    UNCHANGED <<validatorVars, resolverVars, workerVars, raceVars, handoffVars,
                uploadRaceVars, dataset, tables, store, queue, tmp, req, resp, calls>>

\* time passes
Tick ==
    /\ clock < MaxClock
    /\ clock' = clock + TickSeconds
    /\ UNCHANGED <<rate_limit_storage, lprocs, admitted, nreq>>
    /\ LimiterFrame

\* a request of a client arrives: client_ip and now = time.time()
Enter(p, client) ==
    /\ nreq < MaxCalls
    /\ lprocs[p].pc = "idle"
    /\ lprocs' = [lprocs EXCEPT ![p] = [client |-> client, now |-> clock, pc |-> "clean",
                                        last |-> "none"]]
    /\ nreq' = nreq + 1
    /\ UNCHANGED <<rate_limit_storage, clock, admitted>>
    /\ LimiterFrame

\* the entries of the client older than the window are dropped
Clean(p) ==
    /\ lprocs[p].pc = "clean"
    /\ rate_limit_storage' =
           [rate_limit_storage EXCEPT ![lprocs[p].client] =
               SelectSeq(@, LAMBDA req_time : lprocs[p].now - req_time < window_seconds)]
    /\ lprocs' = [lprocs EXCEPT ![p].pc = "check"]
    /\ UNCHANGED <<clock, admitted, nreq>>
    /\ LimiterFrame

\* if len(rate_limit_storage[client_ip]) >= max_requests: 429
Check(p) ==
    /\ lprocs[p].pc = "check"
    /\ lprocs' = IF Len(rate_limit_storage[lprocs[p].client]) >= max_requests
                 THEN [lprocs EXCEPT ![p].pc = "idle", ![p].last = "rejected"]
                 ELSE [lprocs EXCEPT ![p].pc = "append"]
    /\ UNCHANGED <<rate_limit_storage, clock, admitted, nreq>>
    /\ LimiterFrame

\* the request is recorded and index runs
Admit(p) ==
    /\ lprocs[p].pc = "append"
    /\ rate_limit_storage' =
           [rate_limit_storage EXCEPT ![lprocs[p].client] = Append(@, lprocs[p].now)]
    /\ admitted' = [admitted EXCEPT ![lprocs[p].client] = Append(@, lprocs[p].now)]
    /\ lprocs' = [lprocs EXCEPT ![p].pc = "idle", ![p].last = "admitted"]
    /\ UNCHANGED <<clock, nreq>>
    /\ LimiterFrame

NextLimiter ==
    \/ Tick
    \/ \E p \in Callers, client \in Clients : Enter(p, client)
    \/ \E p \in Callers : Clean(p)
    \/ \E p \in Callers : Check(p)
    \/ \E p \in Callers : Admit(p)

SpecLimiter == InitLimiter /\ [][NextLimiter]_vars

\* the requests of a client that reached index in the 60 seconds up to t
AdmittedInWindow(client, t) ==
    {i \in DOMAIN admitted[client] :
        t - 60 < admitted[client][i] /\ admitted[client][i] <= t}

\* C28: for every client key, in every window of 60 seconds at most 5
\* requests reach index, also when the requests of the client are handled
\* by concurrent threads; and what the limiter counts for a client are the
\* requests it let through, never a rejected one.
C28_AtMostFivePerWindow ==
    \A client \in DOMAIN admitted :
        /\ \A t \in 0..MaxClock : Cardinality(AdmittedInWindow(client, t)) <= 5
        /\ Len(rate_limit_storage[client]) <= Len(admitted[client])
        /\ Range(rate_limit_storage[client]) \subseteq Range(admitted[client])

====
